---- MODULE Spec2Model ----
(***************************************************************************)
(* A model of the xw instance scheduler (runtime.Manager and the Docker    *)
(* runtime), of the port allocator, of the per-instance concurrency gate   *)
(* of the request router and of the OpenAI -> Anthropic stream adapter.    *)
(*                                                                         *)
(* Each subsystem has its own next-state relation and specification over   *)
(* the common state: SpecSched, SpecGate / SpecGateFair, SpecStream.       *)
(***************************************************************************)
EXTENDS Integers, Sequences, FiniteSets, TLC

(***************************************************************************)
(* Bounds of the model.                                                    *)
(***************************************************************************)
\* number of logical devices in the inventory (indices 0..NumDevices-1)
NumDevices == 2
\* size of the port range; port q stands for minPort + q - 1
NumPorts == 2
\* the clock (time.Now().Unix()) reads the values 0..MaxTime
MaxTime == 1
\* number of Manager.Run calls in one behaviour
MaxRuns == 2
\* number of proxied requests in one behaviour
NReq == 3
\* largest max_concurrent of an instance
MaxK == 2
\* number of upstream lines read by one Transform
MaxLines == 2
\* largest number of tool-call fragments in one chunk
MaxToolCalls == 1
\* number of times the daemon is killed and started again
MaxBoots == 1
\* largest number of instances in the list FindInstanceByModel searches
MaxInst == 2
\* number of logical devices of the inventory the selection policy is
\* studied on, and the largest topology box index
TopoDevices == 4
MaxBox == 1
\* largest number of values of one header
MaxValues == 2
\* largest number of tool calls of a buffered response
MaxCalls == 2
\* largest length in bytes of a count_tokens body
MaxBody == 40
MaxTP == 2
MaxEngines == 2
MaxCleanups == 1

\* the concurrent API callers of Manager.Run / Stop / Remove
Procs == {"c1", "c2"}
Models == {"qwen", "glm"}
AllDevices == 0..(NumDevices - 1)
PortRange == 1..NumPorts

(***************************************************************************)
(* Helpers.                                                                *)
(***************************************************************************)
Range(s) == {s[i] : i \in DOMAIN s}

Min(S) == CHOOSE x \in S : \A y \in S : x <= y

\* f with key k removed
Drop(f, k) == [x \in (DOMAIN f) \ {k} |-> f[x]]

\* f with key k bound to v (insert or overwrite)
Put(f, k, v) == [x \in (DOMAIN f) \cup {k} |-> IF x = k THEN v ELSE f[x]]

EmptyMap == [x \in {} |-> 0]

(***************************************************************************)
(* State.                                                                  *)
(***************************************************************************)
VARIABLES
    containers,       \* container backend: container name -> labels and state
    instances,        \* DockerRuntimeBase.instances: instance id -> Instance
    allocated,        \* PortAllocator.allocated: the set of marked ports
    deviceAllocator,  \* Manager.deviceAllocator: FALSE = nil, TRUE = created
    now,              \* time.Now().Unix() as last read
    pc,               \* position of each caller inside Manager.Run
    opts,             \* RunOptions of the Run in progress
    local,            \* locals of the Run: instanceID, devices, port
    ret,              \* what the Run that returned in the last step returned
    runs,             \* number of Manager.Run calls so far
    semaphores,       \* concurrencyManager.semaphores: instance id -> channel
    rpc,              \* position of each request inside ProxyRequest
    rinst,            \* the instance a request was routed to (0: none)
    release,          \* whether the request holds a release function
    ctxDone,          \* whether the request's context is cancelled
    waited,           \* whether the request has blocked in acquireSlot
    sa,               \* the StreamAdapter's fields
    written,          \* the events written to the client (w), in order
    spc,              \* position of Transform: "init", "scan", "done"
    lines,            \* number of upstream lines read so far
    usageSeen,        \* completion_tokens of the last usage read upstream
    boots,            \* number of daemon restarts so far
    recovered,        \* the instance ids rebuilt by the last start-up
    arg,              \* the input of the function under study
    result,           \* what the function returned
    returned,         \* whether the function has returned
    granted,          \* port -> GetFreePort returns since its last release
    marked,           \* ports marked or returned and not released since
    got,              \* the last PortAllocator call and what it returned
    channels,         \* the semaphore channels made so far, in order
    semOf,            \* cm.semaphores[instanceID]: a channel, 0 when absent
    slotSem,          \* the channel each goroutine took from the map
    slotpc,           \* position of each goroutine in acquireSlot
    cleanups          \* number of cleanupInstance calls so far

schedVars == <<containers, instances, allocated, deviceAllocator, now,
               pc, opts, local, ret, runs>>

gateVars == <<semaphores, rpc, rinst, release, ctxDone, waited>>

streamVars == <<sa, written, spc, lines, usageSeen>>

bootVars == <<boots, recovered>>

pureVars == <<arg, result, returned>>

portVars == <<granted, marked, got>>

semVars == <<channels, semOf, slotSem, slotpc, cleanups>>

vars == <<schedVars, gateVars, streamVars, bootVars, pureVars, portVars,
          semVars>>

\* what the steps of a subsystem leave alone
notSched == <<gateVars, streamVars, bootVars, pureVars, portVars, semVars>>
notGate == <<schedVars, streamVars, bootVars, pureVars, portVars, semVars>>
notStream == <<schedVars, gateVars, bootVars, pureVars, portVars, semVars>>
notPure == <<schedVars, gateVars, streamVars, bootVars, portVars, semVars>>
notSem == <<schedVars, gateVars, streamVars, bootVars, pureVars, portVars>>
\* what the calls of the PortAllocator on its own leave alone
notPorts == <<containers, instances, deviceAllocator, now, pc, opts, local,
              ret, runs, gateVars, streamVars, bootVars, pureVars,
              semVars>>

(***************************************************************************)
(* Instance states of package runtime.                                     *)
(***************************************************************************)
StateCreated == "created"
StateStarting == "starting"
StateRunning == "running"
StateUnhealthy == "unhealthy"
StateStopped == "stopped"
StateError == "error"

(***************************************************************************)
(* Inputs of Manager.Run.                                                  *)
(***************************************************************************)
RuntimeName == "omni-infer-docker"

\* AdditionalConfig["device"] after parseDeviceList: <<>> stands for "not
\* given"; the index NumDevices is out of range.
DeviceLists == {<<>>, <<0>>, <<NumDevices>>}

\* the options of a Run; Port 0 stands for "not given".  A Run gives a
\* device list, or a port, or neither, or names a runtime that is not
\* registered.
RunOptionsSet ==
    [ModelID : Models, runtime : {RuntimeName}, device : DeviceLists,
     Port : {0}]
    \cup [ModelID : Models, runtime : {RuntimeName}, device : {<<>>},
          Port : {1}]
    \cup [ModelID : Models, runtime : {"mindie-native"}, device : {<<>>},
          Port : {0}]

NoOpts == [ModelID |-> "", runtime |-> "", device |-> <<>>, Port |-> 0]
NoID == <<>>
NoLocal == [instanceID |-> NoID, devices |-> <<>>, port |-> 0]
\* call: "Run" when a Run has returned in the last step, else ""
NoRet == [call |-> "", model |-> "", id |-> NoID, err |-> "",
          Config |-> FALSE]

(***************************************************************************)
(* PortAllocator.                                                          *)
(***************************************************************************)
\* net.Listen on 127.0.0.1:q fails while a started container (host
\* networking, SERVER_PORT = q) is listening on q.
isPortAvailable(q) ==
    ~ \E c \in DOMAIN containers :
          containers[c].state = "running" /\ containers[c].port = q

\* FreePorts without the skip of the marked ports
FreePorts_IgnoreMarks == {q \in PortRange : isPortAvailable(q)}

\* the ports GetFreePort may return: not marked and bindable
FreePorts == {q \in PortRange : q \notin allocated /\ isPortAvailable(q)}

\* GetFreePort with the loop running down from maxPort
GetFreePort_Last ==
    IF FreePorts = {} THEN 0
    ELSE CHOOSE q \in FreePorts : \A r \in FreePorts : r <= q

\* GetFreePort: the first port of the range that is free, or 0 (error)
GetFreePort == IF FreePorts = {} THEN 0 ELSE Min(FreePorts)

\* ReleasePort that marks a port it does not find marked
ReleasePort_Toggle(alloc, q) ==
    IF q \in alloc THEN alloc \ {q} ELSE alloc \cup {q}

ReleasePort(alloc, q) == IF q \in alloc THEN alloc \ {q} ELSE alloc

MarkPortUsed(alloc, q) == IF q <= 0 THEN alloc ELSE alloc \cup {q}

(***************************************************************************)
(* The calls of the PortAllocator, each under the mutex pa.mu: one step    *)
(* per call.  The callers pass any port from 0 to one past the range.      *)
(* granted and marked record the calls made: they are not read by the      *)
(* allocator.                                                              *)
(***************************************************************************)
PortArgs == 0..(NumPorts + 1)

NoCall == [call |-> "", port |-> 0, err |-> FALSE]

InitPorts ==
    /\ granted = [q \in PortArgs |-> 0]
    /\ marked = {}
    /\ got = NoCall

\* GetFreePort() that falls back to minPort when the loop finds no port
CallGetFreePort_Fallback ==
    /\ UNCHANGED notPorts
    /\ LET q == IF GetFreePort = 0 THEN Min(PortRange) ELSE GetFreePort IN
       /\ allocated' = allocated \cup {q}
       /\ got' = [call |-> "GetFreePort", port |-> q, err |-> FALSE]
       /\ granted' = [granted EXCEPT ![q] = Min({2, @ + 1})]
       /\ marked' = marked \cup {q}

\* GetFreePort(): the port found is marked and returned; the error when
\* the loop finds none
CallGetFreePort ==
    /\ UNCHANGED notPorts
    /\ LET q == GetFreePort IN
       IF q = 0
       THEN /\ got' = [call |-> "GetFreePort", port |-> 0, err |-> TRUE]
            /\ UNCHANGED <<allocated, granted, marked>>
       ELSE /\ allocated' = allocated \cup {q}
            /\ got' = [call |-> "GetFreePort", port |-> q, err |-> FALSE]
            /\ granted' = [granted EXCEPT ![q] = Min({2, @ + 1})]
            /\ marked' = marked \cup {q}

CallReleasePort(q) ==
    /\ UNCHANGED notPorts
    /\ allocated' = ReleasePort(allocated, q)
    /\ got' = [call |-> "ReleasePort", port |-> q, err |-> FALSE]
    /\ granted' = [granted EXCEPT ![q] = 0]
    /\ marked' = marked \ {q}

CallMarkPortUsed(q) ==
    /\ UNCHANGED notPorts
    /\ allocated' = MarkPortUsed(allocated, q)
    /\ got' = [call |-> "MarkPortUsed", port |-> q, err |-> FALSE]
    /\ marked' = IF q <= 0 THEN marked ELSE marked \cup {q}
    /\ UNCHANGED granted

(***************************************************************************)
(* Device allocator: the allocated devices are the union of the            *)
(* xw.device_indices labels of the existing containers.                    *)
(***************************************************************************)
AllocatedDevices ==
    UNION {Range(containers[c].device_indices) : c \in DOMAIN containers}

FreeDevices == AllDevices \ AllocatedDevices

\* Allocate(instanceID, 1): the lowest free index, <<>> when none is free
Allocate(n) ==
    IF Cardinality(FreeDevices) < n THEN <<>> ELSE <<Min(FreeDevices)>>

(***************************************************************************)
(* Initial state.                                                          *)
(***************************************************************************)
InitSched ==
    /\ containers = EmptyMap
    /\ instances = EmptyMap
    /\ allocated = {}
    /\ deviceAllocator = FALSE
    /\ now = 0
    /\ pc = [p \in Procs |-> "idle"]
    /\ opts = [p \in Procs |-> NoOpts]
    /\ local = [p \in Procs |-> NoLocal]
    /\ ret = NoRet
    /\ runs = 0

\* the call of p returns: its locals are dropped.  Config tells whether the
\* returned RunInstance carries opts.AdditionalConfig (a fresh instance).
Return(p, model, id, err, config) ==
    /\ pc' = [pc EXCEPT ![p] = "idle"]
    /\ opts' = [opts EXCEPT ![p] = NoOpts]
    /\ local' = [local EXCEPT ![p] = NoLocal]
    /\ ret' = [call |-> "Run", model |-> model, id |-> id, err |-> err,
               Config |-> config]

(***************************************************************************)
(* Manager.Run, first part: dedup against the running instances, runtime   *)
(* lookup, instance id.                                                    *)
(***************************************************************************)
\* the running instances of the model: the candidates of the dedup loop
RunningOf(model) ==
    {i \in DOMAIN instances :
        instances[i].ModelID = model /\ instances[i].State = StateRunning}

\* RunDedup without the loop over the existing instances
RunDedup_NoDedup(p, o, t) ==
    /\ pc[p] = "idle"
    /\ UNCHANGED notSched
    /\ runs < MaxRuns
    /\ runs' = runs + 1
    /\ UNCHANGED <<containers, instances, allocated, deviceAllocator>>
    /\ IF o.runtime # RuntimeName
       THEN /\ t = now
            /\ Return(p, o.ModelID, NoID, "runtime not available", FALSE)
            /\ UNCHANGED now
       ELSE /\ now' = t
            /\ pc' = [pc EXCEPT ![p] = "allocate"]
            /\ opts' = [opts EXCEPT ![p] = o]
            /\ local' = [local EXCEPT ![p] =
                           [instanceID |-> <<o.ModelID, t>>,
                            devices |-> <<>>, port |-> 0]]
            /\ ret' = NoRet

\* Manager.Run up to the instance ID: the caller p enters with the options
\* o, lists the instances, returns a running one of the model if there is
\* one, looks the runtime up and derives the ID from the clock, which
\* reads t, not less than what it read last.
RunDedup(p, o, t) ==
    /\ pc[p] = "idle"
    /\ UNCHANGED notSched
    /\ runs < MaxRuns
    /\ runs' = runs + 1
    /\ UNCHANGED <<containers, instances, allocated, deviceAllocator>>
    /\ IF RunningOf(o.ModelID) # {}
       THEN /\ t = now
            /\ \E i \in RunningOf(o.ModelID) :
                   Return(p, o.ModelID, i, "", FALSE)
            /\ UNCHANGED now
       ELSE IF o.runtime # RuntimeName
       THEN /\ t = now
            /\ Return(p, o.ModelID, NoID, "runtime not available", FALSE)
            /\ UNCHANGED now
       ELSE /\ now' = t
            /\ pc' = [pc EXCEPT ![p] = "allocate"]
            /\ opts' = [opts EXCEPT ![p] = o]
            /\ local' = [local EXCEPT ![p] =
                           [instanceID |-> <<o.ModelID, t>>,
                            devices |-> <<>>, port |-> 0]]
            /\ ret' = NoRet

(***************************************************************************)
(* Manager.Run, devices: the caller's index list or Allocate(id, 1).       *)
(***************************************************************************)
RunAllocate(p) ==
    /\ pc[p] = "allocate"
    /\ UNCHANGED notSched
    /\ deviceAllocator' = TRUE
    /\ UNCHANGED <<containers, instances, allocated, now, runs>>
    /\ IF opts[p].device # <<>>
       THEN IF \E k \in DOMAIN opts[p].device :
                   opts[p].device[k] >= NumDevices
            THEN Return(p, opts[p].ModelID, NoID,
                        "device index out of range", FALSE)
            ELSE /\ local' = [local EXCEPT ![p].devices = opts[p].device]
                 /\ pc' = [pc EXCEPT ![p] = "port"]
                 /\ ret' = NoRet
                 /\ UNCHANGED opts
       ELSE IF Allocate(1) = <<>>
            THEN Return(p, opts[p].ModelID, NoID,
                        "failed to allocate devices", FALSE)
            ELSE /\ local' = [local EXCEPT ![p].devices = Allocate(1)]
                 /\ pc' = [pc EXCEPT ![p] = "port"]
                 /\ ret' = NoRet
                 /\ UNCHANGED opts

(***************************************************************************)
(* Port of the new instance: the caller's port, else a lease.              *)
(***************************************************************************)
RunPort(p) ==
    /\ pc[p] = "port"
    /\ UNCHANGED notSched
    /\ UNCHANGED <<containers, instances, deviceAllocator, now, runs>>
    /\ IF opts[p].Port > 0
       THEN /\ local' = [local EXCEPT ![p].port = opts[p].Port]
            /\ pc' = [pc EXCEPT ![p] = "create"]
            /\ ret' = NoRet
            /\ UNCHANGED <<allocated, opts>>
       ELSE IF GetFreePort = 0
            THEN /\ Return(p, opts[p].ModelID, NoID,
                           "no available ports", FALSE)
                 /\ UNCHANGED allocated
            ELSE /\ allocated' = allocated \cup {GetFreePort}
                 /\ local' = [local EXCEPT ![p].port = GetFreePort]
                 /\ pc' = [pc EXCEPT ![p] = "create"]
                 /\ ret' = NoRet
                 /\ UNCHANGED opts

(***************************************************************************)
(* Runtime.Create: duplicate check, container with labels, registration.   *)
(***************************************************************************)
RunCreate(p) ==
    /\ pc[p] = "create"
    /\ UNCHANGED notSched
    /\ UNCHANGED <<allocated, deviceAllocator, now, runs>>
    /\ LET id == local[p].instanceID IN
       IF id \in DOMAIN instances
       THEN /\ Return(p, opts[p].ModelID, NoID,
                      "instance already exists", FALSE)
            /\ UNCHANGED <<containers, instances>>
       ELSE IF Len(local[p].devices) = 0
       THEN /\ Return(p, opts[p].ModelID, NoID,
                      "at least one device is required", FALSE)
            /\ UNCHANGED <<containers, instances>>
       ELSE IF id \in DOMAIN containers
       THEN /\ Return(p, opts[p].ModelID, NoID,
                      "container name in use", FALSE)
            /\ UNCHANGED <<containers, instances>>
       ELSE /\ containers' = Put(containers, id,
                                 [model_id |-> opts[p].ModelID,
                                  device_indices |-> local[p].devices,
                                  port |-> local[p].port,
                                  state |-> "created"])
            /\ instances' = Put(instances, id,
                                [ModelID |-> opts[p].ModelID,
                                 State |-> StateCreated,
                                 Port |-> local[p].port])
            /\ pc' = [pc EXCEPT ![p] = "start"]
            /\ ret' = NoRet
            /\ UNCHANGED <<opts, local>>

(***************************************************************************)
(* DockerRuntimeBase.Remove / Stop: the container is removed, the entry    *)
(* deleted and the port released.                                          *)
(***************************************************************************)
RemoveInstance(id) ==
    IF id \in DOMAIN instances
    THEN /\ containers' = Drop(containers, id)
         /\ allocated' = ReleasePort(allocated, instances[id].Port)
         /\ instances' = Drop(instances, id)
    ELSE UNCHANGED <<containers, instances, allocated>>

(***************************************************************************)
(* Manager.Run, rt.Start and the health probe, and the clean-up on         *)
(* failure.                                                                *)
(***************************************************************************)
RunStart(p, ok) ==
    /\ pc[p] = "start"
    /\ UNCHANGED notSched
    /\ ret' = NoRet
    /\ UNCHANGED <<allocated, deviceAllocator, now, opts, local, runs>>
    /\ LET id == local[p].instanceID IN
       IF id \notin DOMAIN instances
       THEN /\ pc' = [pc EXCEPT ![p] = "rollback"]
            /\ UNCHANGED <<containers, instances>>
       ELSE IF ok
       THEN /\ containers' = [containers EXCEPT ![id].state = "running"]
            /\ instances' = [instances EXCEPT ![id].State = StateStarting]
            /\ pc' = [pc EXCEPT ![p] = "health"]
       ELSE /\ instances' = [instances EXCEPT ![id].State = StateError]
            /\ pc' = [pc EXCEPT ![p] = "rollback"]
            /\ UNCHANGED containers

RunHealth(p, healthy) ==
    /\ pc[p] = "health"
    /\ UNCHANGED notSched
    /\ UNCHANGED <<containers, allocated, deviceAllocator, now, runs>>
    /\ LET id == local[p].instanceID IN
       IF id \notin DOMAIN instances
       THEN /\ pc' = [pc EXCEPT ![p] = "rollback"]
            /\ ret' = NoRet
            /\ UNCHANGED <<instances, opts, local>>
       ELSE /\ instances' = [instances EXCEPT ![id].State =
                               IF healthy THEN StateRunning
                               ELSE StateUnhealthy]
            /\ Return(p, opts[p].ModelID, id, "", TRUE)

\* RunRollback that returns the error without removing the instance
RunRollback_NoRemove(p) ==
    /\ pc[p] = "rollback"
    /\ UNCHANGED notSched
    /\ UNCHANGED <<deviceAllocator, now, runs, containers, instances,
                   allocated>>
    /\ Return(p, opts[p].ModelID, NoID, "failed to start instance", FALSE)

RunRollback(p) ==
    /\ pc[p] = "rollback"
    /\ UNCHANGED notSched
    /\ UNCHANGED <<deviceAllocator, now, runs>>
    /\ RemoveInstance(local[p].instanceID)
    /\ Return(p, opts[p].ModelID, NoID, "failed to start instance", FALSE)

(***************************************************************************)
(* Manager.Stop and Manager.Remove.                                        *)
(***************************************************************************)
\* a free caller stops the instance id: rt.Stop removes the container,
\* the entry and the port mark.  For an id that findInstanceRuntime does
\* not find the call returns the error and changes nothing (no step).
Stop(id) ==
    /\ \E p \in Procs : pc[p] = "idle"
    /\ id \in DOMAIN instances
    /\ UNCHANGED notSched
    /\ UNCHANGED <<deviceAllocator, now, pc, opts, local, runs>>
    /\ RemoveInstance(id)
    /\ ret' = NoRet

\* Manager.Remove is Manager.Stop with rt.Remove in the place of rt.Stop:
\* the same step
Remove(id) == Stop(id)

(***************************************************************************)
(* Kill and restart of the daemon.  The containers outlive the process;    *)
(* the ones in S are still there at start-up.  The new process has an      *)
(* empty registry and port allocator and no call in progress; start-up     *)
(* lists the containers, rebuilds one entry per container from its labels, *)
(* with the state of the container, and marks the ports used.              *)
(***************************************************************************)
\* the instance state that start-up derives from the container state
StateOfContainer(state) ==
    IF state = "running" THEN StateRunning ELSE StateCreated

\* MarkPortUsed applied to every port of the set
RECURSIVE MarkPortsUsed(_, _)
MarkPortsUsed(alloc, ports) ==
    IF ports = {} THEN alloc
    ELSE LET q == Min(ports)
         IN  MarkPortsUsed(MarkPortUsed(alloc, q), ports \ {q})

LoadExistingContainers(S) ==
    /\ instances' = [id \in S |->
                        [ModelID |-> containers[id].model_id,
                         State |-> StateOfContainer(containers[id].state),
                         Port |-> containers[id].port]]
    /\ allocated' = MarkPortsUsed({}, {containers[id].port : id \in S})

Restart(S) ==
    /\ boots < MaxBoots
    /\ S # {}
    /\ UNCHANGED <<gateVars, streamVars, pureVars, portVars, semVars>>
    /\ boots' = boots + 1
    /\ recovered' = S
    /\ containers' = [id \in S |-> containers[id]]
    /\ LoadExistingContainers(S)
    /\ deviceAllocator' = FALSE
    /\ pc' = [p \in Procs |-> "idle"]
    /\ opts' = [p \in Procs |-> NoOpts]
    /\ local' = [p \in Procs |-> NoLocal]
    /\ ret' = NoRet
    /\ UNCHANGED <<now, runs>>

(***************************************************************************)
(* Concurrency gate of the request router: concurrencyManager and          *)
(* ProxyCore.AcquireConcurrency, as used by ProxyHandler.ProxyRequest.     *)
(* Strings are sequences of one-character strings.                         *)
(***************************************************************************)
Requests == 1..NReq

Digits == <<"0", "1", "2", "3", "4", "5", "6", "7", "8", "9">>

\* fmt.Sprintf("%d", n) for n >= 0
RECURSIVE Itoa(_)
Itoa(n) ==
    IF n < 10 THEN <<Digits[n + 1]>>
    ELSE Itoa(n \div 10) \o <<Digits[(n % 10) + 1]>>

DigitValue(c) == CHOOSE d \in 0..9 : Digits[d + 1] = c

RECURSIVE DigitsValue(_)
DigitsValue(s) ==
    IF s = <<>> THEN 0
    ELSE 10 * DigitsValue(SubSeq(s, 1, Len(s) - 1)) + DigitValue(s[Len(s)])

\* strconv.Atoi: an optional sign followed by at least one decimal digit
Atoi(s) ==
    LET signed == Len(s) > 0 /\ s[1] \in {"+", "-"}
        body == IF signed THEN Tail(s) ELSE s
    IN  IF body = <<>> \/ \E k \in DOMAIN body : body[k] \notin Range(Digits)
        THEN [ok |-> FALSE, val |-> 0]
        ELSE [ok |-> TRUE,
              val |-> IF s[1] = "-" THEN 0 - DigitsValue(body)
                      ELSE DigitsValue(body)]

\* Runtime.Create: Metadata["max_concurrent"] of an instance created with
\* ExtraConfig["max_concurrent"] = n; <<>> stands for "no such key"
MetadataMaxConcurrent(n) == IF n > 0 THEN Itoa(n) ELSE <<>>

\* Metadata["max_concurrent"] of the running instances 1..Len(...): two
\* created with a limit, one created without, and three whose value does
\* not denote a positive number
InstanceMetadata ==
    <<MetadataMaxConcurrent(1), MetadataMaxConcurrent(MaxK),
      MetadataMaxConcurrent(0), <<"0">>, <<"-", "1">>, <<"x">>>>

GateInstances == DOMAIN InstanceMetadata

\* the limit AcquireConcurrency derives from the instance's metadata
MaxConcurrency(i) ==
    LET v == InstanceMetadata[i]
    IN  IF v # <<>> /\ Atoi(v).ok /\ Atoi(v).val > 0 THEN Atoi(v).val ELSE 0

InitGate ==
    /\ semaphores = EmptyMap
    /\ rpc = [r \in Requests |-> "idle"]
    /\ rinst = [r \in Requests |-> 0]
    /\ release = [r \in Requests |-> FALSE]
    /\ ctxDone = [r \in Requests |-> FALSE]
    /\ waited = [r \in Requests |-> FALSE]

\* AcquireConcurrency up to the select of acquireSlot: without a limit the
\* request goes on with a nil release function; with one, the semaphore of
\* the instance is looked up, and created on first use, under cm.mu.
AcquireConcurrency(r, i) ==
    /\ rpc[r] = "idle"
    /\ UNCHANGED notGate
    /\ rinst' = [rinst EXCEPT ![r] = i]
    /\ UNCHANGED <<release, ctxDone, waited>>
    /\ IF MaxConcurrency(i) <= 0
       THEN /\ rpc' = [rpc EXCEPT ![r] = "forward"]
            /\ UNCHANGED semaphores
       ELSE /\ rpc' = [rpc EXCEPT ![r] = "select"]
            /\ semaphores' =
                 IF i \in DOMAIN semaphores THEN semaphores
                 ELSE Put(semaphores, i,
                          [cap |-> MaxConcurrency(i), len |-> 0])

\* the request leaves ProxyRequest; its locals are dropped
Leave(r, how) ==
    /\ rpc' = [rpc EXCEPT ![r] = how]
    /\ rinst' = [rinst EXCEPT ![r] = 0]
    /\ ctxDone' = [ctxDone EXCEPT ![r] = FALSE]

\* acquireSlot whose send succeeds even when the channel buffer is full
acquireSlot_NoLimit(r) ==
    /\ rpc[r] = "select"
    /\ UNCHANGED notGate
    /\ semaphores' = [semaphores EXCEPT ![rinst[r]].len = @ + 1]
    /\ rpc' = [rpc EXCEPT ![r] = "forward"]
    /\ release' = [release EXCEPT ![r] = TRUE]
    /\ UNCHANGED <<rinst, ctxDone, waited>>

\* the select of acquireSlot: the send when the buffer has room, the
\* ctx.Done case when the context is cancelled (either one when both are
\* ready), and blocking otherwise.
acquireSlot(r) ==
    /\ rpc[r] = "select"
    /\ UNCHANGED notGate
    /\ LET sem == semaphores[rinst[r]] IN
       \/ /\ sem.len < sem.cap
          /\ semaphores' = [semaphores EXCEPT ![rinst[r]].len = @ + 1]
          /\ rpc' = [rpc EXCEPT ![r] = "forward"]
          /\ release' = [release EXCEPT ![r] = TRUE]
          /\ UNCHANGED <<rinst, ctxDone, waited>>
       \/ /\ ctxDone[r]
          /\ Leave(r, "failed")
          /\ UNCHANGED <<semaphores, release, waited>>
       \/ /\ sem.len >= sem.cap
          /\ ~ctxDone[r]
          /\ rpc' = [rpc EXCEPT ![r] = "parked"]
          /\ waited' = [waited EXCEPT ![r] = TRUE]
          /\ UNCHANGED <<semaphores, rinst, release, ctxDone>>

\* CtxCancel that leaves a token of the blocked request in the channel
CtxCancel_Leak(r) ==
    /\ rpc[r] \in {"select", "parked", "forward"}
    /\ ~ctxDone[r]
    /\ UNCHANGED notGate
    /\ IF rpc[r] = "parked"
       THEN /\ Leave(r, "failed")
            /\ semaphores' = [semaphores EXCEPT ![rinst[r]].len = @ + 1]
            /\ UNCHANGED <<release, waited>>
       ELSE /\ ctxDone' = [ctxDone EXCEPT ![r] = TRUE]
            /\ UNCHANGED <<semaphores, rpc, rinst, release, waited>>

\* the request's context is cancelled (the client went away): a request
\* blocked in the select takes the ctx.Done case and acquireSlot returns
\* the error and no release function.
CtxCancel(r) ==
    /\ rpc[r] \in {"select", "parked", "forward"}
    /\ ~ctxDone[r]
    /\ UNCHANGED notGate
    /\ IF rpc[r] = "parked"
       THEN /\ Leave(r, "failed")
            /\ UNCHANGED <<semaphores, release, waited>>
       ELSE /\ ctxDone' = [ctxDone EXCEPT ![r] = TRUE]
            /\ UNCHANGED <<semaphores, rpc, rinst, release, waited>>

\* the requests blocked in the select on the semaphore of instance i
Waiters(i) == {w \in Requests : rpc[w] = "parked" /\ rinst[w] = i}

\* the release function that takes a token and wakes nobody
Release_NoWake(r) ==
    /\ semaphores' = [semaphores EXCEPT ![rinst[r]].len = @ - 1]
    /\ Leave(r, "done")
    /\ release' = [release EXCEPT ![r] = FALSE]
    /\ UNCHANGED waited

\* the release function, <-sem: with a sender blocked on the full channel
\* the receive completes that send (the buffer stays full and the sender
\* returns from its select); otherwise the buffer loses a token.
Release(r) ==
    IF Waiters(rinst[r]) # {}
    THEN \E w \in Waiters(rinst[r]) :
            /\ rpc' = [rpc EXCEPT ![r] = "done", ![w] = "forward"]
            /\ release' = [release EXCEPT ![r] = FALSE, ![w] = TRUE]
            /\ rinst' = [rinst EXCEPT ![r] = 0]
            /\ ctxDone' = [ctxDone EXCEPT ![r] = FALSE]
            /\ UNCHANGED <<semaphores, waited>>
    ELSE /\ semaphores' = [semaphores EXCEPT ![rinst[r]].len = @ - 1]
         /\ Leave(r, "done")
         /\ release' = [release EXCEPT ![r] = FALSE]
         /\ UNCHANGED waited

\* ProxyRequest after AcquireConcurrency: the request is forwarded, the
\* response relayed, and the deferred release function runs.
ProxyRequestReturn(r) ==
    /\ rpc[r] = "forward"
    /\ UNCHANGED notGate
    /\ IF release[r]
       THEN Release(r)
       ELSE /\ Leave(r, "done")
            /\ UNCHANGED <<semaphores, release, waited>>

NextGate ==
    \/ \E r \in Requests : \E i \in GateInstances : AcquireConcurrency(r, i)
    \/ \E r \in Requests : acquireSlot(r)
    \/ \E r \in Requests : CtxCancel(r)
    \/ \E r \in Requests : ProxyRequestReturn(r)

(***************************************************************************)
(* ProxyCore.FindInstanceByModel.  The result is the position of the       *)
(* returned instance in the list of Manager.List, 0 with the error.        *)
(***************************************************************************)
\* strings.ToLower on the letters of the model
ToLowerChar(ch) ==
    CASE ch = "Q" -> "q"
      [] ch = "W" -> "w"
      [] OTHER -> ch

ToLower(str) == [k \in DOMAIN str |-> ToLowerChar(str[k])]

HasPrefix(str, prefix) ==
    /\ Len(prefix) <= Len(str)
    /\ SubSeq(str, 1, Len(prefix)) = prefix

\* the model names of the requests
ModelNames == {<<>>, <<"q">>, <<"Q">>, <<"q", "w">>, <<"Q", "W">>, <<"g">>}

\* the listed instances: state, alias (may be empty) and model id
InstanceSet ==
    [State : {StateRunning, StateStopped},
     Alias : {<<>>, <<"Q">>, <<"q", "w">>},
     ModelID : {<<"q">>, <<"q", "W">>, <<"g">>}]

InstanceLists == UNION {[1..n -> InstanceSet] : n \in 0..MaxInst}

\* alias := inst.Alias; if alias == "" { alias = inst.ModelID }
AliasOf(inst) == IF inst.Alias = <<>> THEN inst.ModelID ELSE inst.Alias

\* the first position of the list that holds a running instance and
\* passes the test of the pass (matching: the positions that pass), 0: none
FirstHit(list, matching) ==
    LET hits == {k \in matching : list[k].State = "running"}
    IN  IF hits = {} THEN 0 ELSE Min(hits)

\* FindInstanceByModel with one pass that takes exact and prefix matches
FindInstanceByModel_OnePass(list, modelName) ==
    LET modelNameLower == ToLower(modelName)
        Either == {k \in DOMAIN list :
                      \/ ToLower(AliasOf(list[k])) = modelNameLower
                      \/ HasPrefix(ToLower(AliasOf(list[k])), modelNameLower)
                      \/ HasPrefix(modelNameLower, ToLower(AliasOf(list[k])))}
    IN  FirstHit(list, Either)

FindInstanceByModel(list, modelName) ==
    LET modelNameLower == ToLower(modelName)
        Exact == {k \in DOMAIN list :
                     ToLower(AliasOf(list[k])) = modelNameLower}
        Prefix == {k \in DOMAIN list :
                      \/ HasPrefix(ToLower(AliasOf(list[k])), modelNameLower)
                      \/ HasPrefix(modelNameLower, ToLower(AliasOf(list[k])))}
    IN  IF FirstHit(list, Exact) # 0 THEN FirstHit(list, Exact)
        ELSE FirstHit(list, Prefix)

(***************************************************************************)
(* Selection policy of the device allocator: allocate(instance_id, n) on   *)
(* the free set F.  A topology gives the box index of every device;        *)
(* NoTopology stands for a chip without declared topology.                 *)
(***************************************************************************)
TopoIndices == 0..(TopoDevices - 1)

NoTopology == <<>>

Topologies == {NoTopology} \cup [TopoIndices -> 0..MaxBox]

Abs(x) == IF x < 0 THEN -x ELSE x

\* dist(a, b): 0 inside a box, else the difference of the box indices;
\* the difference of the indices when no topology is declared
Dist(topology, a, b) ==
    IF topology = NoTopology THEN Abs(a - b)
    ELSE Abs(topology[a] - topology[b])

\* the sum of dist over the pairs a < b of S
RECURSIVE TotalDistance(_, _)
TotalDistance(topology, S) ==
    IF S = {} THEN 0
    ELSE LET a == Min(S)
             rest == S \ {a}
             RECURSIVE ToRest(_)
             ToRest(T) ==
                 IF T = {} THEN 0
                 ELSE LET b == Min(T)
                      IN  Dist(topology, a, b) + ToRest(T \ {b})
         IN  ToRest(rest) + TotalDistance(topology, rest)

\* the indices of S in ascending order
RECURSIVE Ascending(_)
Ascending(S) ==
    IF S = {} THEN <<>> ELSE <<Min(S)>> \o Ascending(S \ {Min(S)})

\* lexicographic order on ascending index lists of one length
RECURSIVE LexLess(_, _)
LexLess(x, y) ==
    /\ x # <<>>
    /\ \/ Head(x) < Head(y)
       \/ Head(x) = Head(y) /\ LexLess(Tail(x), Tail(y))

\* the n-subsets of F in lexicographic order
RECURSIVE Candidates(_, _)
Candidates(F, n) ==
    IF n = 0 THEN <<{}>>
    ELSE IF Cardinality(F) < n THEN <<>>
    ELSE LET a == Min(F)
             with == Candidates(F \ {a}, n - 1)
         IN  [k \in DOMAIN with |-> {a} \cup with[k]]
             \o Candidates(F \ {a}, n)

\* allocate without topology: the n lowest free indices
allocate_LowestIndices(topology, F, n) ==
    IF n > Cardinality(F) THEN <<>>
    ELSE SubSeq(Ascending(F), 1, n)

\* allocate: scan the candidates in lexicographic order and keep the
\* first one of least total distance; <<>> is ResourceExhausted
allocate(topology, F, n) ==
    IF n > Cardinality(F) THEN <<>>
    ELSE LET cands == Candidates(F, n)
             RECURSIVE Scan(_, _)
             Scan(k, best) ==
                 IF k > Len(cands) THEN best
                 ELSE IF TotalDistance(topology, cands[k])
                             < TotalDistance(topology, best)
                      THEN Scan(k + 1, cands[k])
                      ELSE Scan(k + 1, best)
         IN  Ascending(Scan(2, cands[1]))

(***************************************************************************)
(* Header copying of the proxy.  An http.Header is a function from the     *)
(* (canonical) header names it holds to their value lists.                 *)
(***************************************************************************)
hopByHopHeaders ==
    {"Connection", "Keep-Alive", "Proxy-Authenticate", "Proxy-Authorization",
     "Te", "Trailers", "Transfer-Encoding", "Upgrade"}

\* value lists of the headers that may repeat
ValueLists == UNION {[1..n -> {"v", "w"}] : n \in 1..MaxValues}

\* the value lists a header name may carry in the model
ValuesOf(name) ==
    CASE name \in {"X-Request-Id", "Connection"} -> ValueLists
      [] name = "Content-Type" -> {<<"">>, <<"text/plain">>}
      [] OTHER -> {<<"v">>}

HeaderNames == hopByHopHeaders \cup {"Content-Type", "X-Request-Id"}

\* the headers over the names of N
RECURSIVE HeadersOver(_)
HeadersOver(N) ==
    IF N = {} THEN {EmptyMap}
    ELSE LET name == CHOOSE x \in N : TRUE
             rest == HeadersOver(N \ {name})
         IN  rest \cup {Put(h, name, v) : h \in rest, v \in ValuesOf(name)}

HeaderSet == HeadersOver(HeaderNames)

\* http.Header.Add, Get and Set
HeaderAdd(h, name, v) ==
    IF name \in DOMAIN h THEN [h EXCEPT ![name] = Append(@, v)]
    ELSE Put(h, name, <<v>>)

HeaderGet(h, name) == IF name \in DOMAIN h THEN h[name][1] ELSE ""

HeaderSetValue(h, name, v) == Put(h, name, <<v>>)

\* the inner loop: dst.Add(name, v) for each value
RECURSIVE AddValues(_, _, _)
AddValues(dst, name, values) ==
    IF values = <<>> THEN dst
    ELSE AddValues(HeaderAdd(dst, name, Head(values)), name, Tail(values))

\* the loop of copyHeaders over the names still to visit
RECURSIVE CopyLoop(_, _, _, _)
CopyLoop(src, dst, names, skip) ==
    IF names = {} THEN dst
    ELSE LET name == CHOOSE x \in names : TRUE
         IN  IF name \in skip
             THEN CopyLoop(src, dst, names \ {name}, skip)
             ELSE CopyLoop(src, AddValues(dst, name, src[name]),
                           names \ {name}, skip)

\* copyHeaders that forwards every header
copyHeaders_NoFilter(src, dst) == CopyLoop(src, dst, DOMAIN src, {})

copyHeaders(src, dst) == CopyLoop(src, dst, DOMAIN src, hopByHopHeaders)

copyResponseHeaders(src, dst) ==
    CopyLoop(src, dst, DOMAIN src, hopByHopHeaders)

\* the header of the request ForwardRequest sends for the client's header
\* srcHeaders and a body that is empty or not
ForwardRequest(srcHeaders, hasBody) ==
    LET h == copyHeaders(srcHeaders, EmptyMap)
    IN  IF HeaderGet(h, "Content-Type") = "" /\ hasBody
        THEN HeaderSetValue(h, "Content-Type", "application/json")
        ELSE h

(***************************************************************************)
(* The request handlers ProxyHandler.ProxyRequest (OpenAI routes) and      *)
(* AnthropicHandler.HandleMessages (POST /v1/messages) from the request to *)
(* the answer.  A request q carries what the handler reads: the method,    *)
(* whether the path starts with /v1/, the body ("empty", "invalid" JSON or *)
(* "ok" with the fields modelName, MaxTokens and the number of Messages),  *)
(* the instance list of the lookup, the state of the found instance when   *)
(* it is read again, and the outcomes of AcquireConcurrency ("unlimited",  *)
(* "slot", "cancelled") and of the steps after it ("disconnect": the       *)
(* client goes away while the response is relayed).  The answer is the     *)
(* HTTP status, the error type and the calls made, in order; "relay" is    *)
(* the relay of the response body, streamed or buffered.                   *)
(***************************************************************************)
ProxyInstanceLists ==
    UNION {[1..n -> [State : {StateRunning, StateStopped}, Alias : {<<>>},
                     ModelID : {<<"q">>}]] : n \in 0..1}

ProxyRequests ==
    [route : {"openai", "anthropic"}, Method : {"POST", "GET"},
     pathV1 : BOOLEAN, json : {"empty", "invalid", "ok"},
     modelName : {<<>>, <<"q">>, <<"g">>}, MaxTokens : {-1, 0, 1},
     Messages : {0, 1}, instances : ProxyInstanceLists,
     stateAtCheck : {StateRunning, StateStopped},
     acquire : {"unlimited", "slot", "cancelled"},
     downstream : {"convert_error", "forward_error", "backend_error",
                   "disconnect", "ok"}]

Answer(status, type, calls) ==
    [status |-> status, type |-> type, calls |-> calls]

\* what the handler does between the deferred release and its return;
\* convert tells whether the request is converted before it is forwarded
\* and the backend's error translated (HandleMessages) or relayed as it
\* is (ProxyRequest).  The backend's error status is 500.
Exchange(q, calls, convert) ==
    IF convert /\ q.downstream = "convert_error"
    THEN Answer(400, "invalid_request_error", calls)
    ELSE IF q.downstream = "forward_error"
    THEN Answer(502, "api_error", Append(calls, "forward"))
    ELSE IF q.downstream = "backend_error"
    THEN IF convert
         THEN Answer(500, "api_error", Append(calls, "forward"))
         ELSE Answer(500, "", Append(calls, "forward") \o <<"relay">>)
    ELSE Answer(200, "", Append(calls, "forward") \o <<"relay">>)

\* the handler's return: the deferred calls run
Deferred(q, answer) ==
    IF q.acquire = "slot"
    THEN [answer EXCEPT !.calls = Append(@, "release")]
    ELSE answer

\* AcquireAndForward with the release called at the end of the relay
\* instead of deferred
AcquireAndForward_NoDefer(q, calls, convert) ==
    IF q.acquire = "cancelled"
    THEN Answer(503, "overloaded_error", Append(calls, "acquire"))
    ELSE LET answer == Exchange(q, Append(calls, "acquire"), convert)
         IN  IF answer.calls[Len(answer.calls)] = "relay"
             THEN Deferred(q, answer)
             ELSE answer

\* the handler from AcquireConcurrency on
AcquireAndForward(q, calls, convert) ==
    IF q.acquire = "cancelled"
    THEN Answer(503, "overloaded_error", Append(calls, "acquire"))
    ELSE Deferred(q, Exchange(q, Append(calls, "acquire"), convert))

\* the handler from the instance lookup on
LookupAndForward(q, convert) ==
    IF FindInstanceByModel(q.instances, q.modelName) = 0
    THEN Answer(404, "not_found_error", <<"lookup">>)
    ELSE IF q.stateAtCheck # "running"
    THEN Answer(503, "api_error", <<"lookup">>)
    ELSE AcquireAndForward(q, <<"lookup">>, convert)

\* ProxyRequest without the check of the model field
ProxyRequest_NoModelCheck(q) ==
    IF ~q.pathV1 THEN Answer(400, "", <<>>)
    ELSE IF q.json = "invalid" THEN Answer(400, "", <<>>)
    ELSE LookupAndForward([q EXCEPT !.modelName =
                                 IF q.json = "empty" THEN <<>> ELSE @],
                          FALSE)

ProxyRequest(q) ==
    IF ~q.pathV1 THEN Answer(400, "", <<>>)
    ELSE IF q.json = "invalid" THEN Answer(400, "", <<>>)
    ELSE IF q.json = "empty" \/ q.modelName = <<>>
    THEN Answer(400, "", <<>>)
    ELSE LookupAndForward(q, FALSE)

\* HandleMessages without the check of max_tokens
HandleMessages_NoMaxTokensCheck(q) ==
    IF q.Method # "POST" THEN Answer(405, "invalid_request_error", <<>>)
    ELSE IF q.json # "ok" THEN Answer(400, "invalid_request_error", <<>>)
    ELSE IF q.modelName = <<>>
    THEN Answer(400, "invalid_request_error", <<>>)
    ELSE IF q.Messages = 0 THEN Answer(400, "invalid_request_error", <<>>)
    ELSE LookupAndForward(q, TRUE)

HandleMessages(q) ==
    IF q.Method # "POST" THEN Answer(405, "invalid_request_error", <<>>)
    ELSE IF q.json # "ok" THEN Answer(400, "invalid_request_error", <<>>)
    ELSE IF q.modelName = <<>>
    THEN Answer(400, "invalid_request_error", <<>>)
    ELSE IF q.MaxTokens <= 0 THEN Answer(400, "invalid_request_error", <<>>)
    ELSE IF q.Messages = 0 THEN Answer(400, "invalid_request_error", <<>>)
    ELSE LookupAndForward(q, TRUE)

(***************************************************************************)
(* Runtime.Create from its parameters to the instance it creates: the      *)
(* duplicate check, the device requirement, the environment variable       *)
(* TENSOR_PARALLEL_SIZE and the registered instance.  TensorParallel 0     *)
(* stands for "not given"; exists tells whether the id is registered.      *)
(***************************************************************************)
CreateParamsSet ==
    [exists : BOOLEAN, TensorParallel : 0..MaxTP,
     Devices : UNION {[1..n -> AllDevices] : n \in 0..MaxTP},
     Port : {0} \cup PortRange]

NotCreated(err) ==
    [err |-> err, Devices |-> <<>>, TENSOR_PARALLEL_SIZE |-> <<>>,
     State |-> "", Port |-> 0]

Create(params) ==
    IF params.exists THEN NotCreated("instance already exists")
    ELSE IF Len(params.Devices) = 0
    THEN NotCreated("at least one device is required")
    ELSE [err |-> "",
          Devices |-> params.Devices,
          TENSOR_PARALLEL_SIZE |->
              IF params.TensorParallel > 0 THEN Itoa(params.TensorParallel)
              ELSE Itoa(Len(params.Devices)),
          State |-> StateCreated,
          Port |-> params.Port]

(***************************************************************************)
(* The container environment of Runtime.Create: the user's environment,    *)
(* over it the sandbox's, then the variables Create sets itself.  An       *)
(* environment is a map from keys to values.  The parameters other than    *)
(* the two environments are fixed: no alias, model qwen, one device, no    *)
(* tensor_parallel, no max_model_len, no port, no template parameters.     *)
(***************************************************************************)
EnvKeys == {"ASCEND_VISIBLE_DEVICES", "LD_LIBRARY_PATH", "MODEL_PATH"}

\* the environments over the keys, each key with the value v
EnvsOf(v) == UNION {[K -> {v}] : K \in SUBSET EnvKeys}

\* the map a with the entries of b written over it
Overwrite(a, b) ==
    [k \in (DOMAIN a) \cup (DOMAIN b) |-> IF k \in DOMAIN b THEN b[k]
                                          ELSE a[k]]

CreateEnvironment(Environment, sandboxEnv) ==
    Overwrite(Overwrite(Environment, sandboxEnv),
              [k \in {"MODEL_PATH", "MODEL_NAME", "TENSOR_PARALLEL_SIZE",
                      "SERVER_PORT"} |->
                  CASE k = "MODEL_PATH" -> "/mnt/model"
                    [] k = "MODEL_NAME" -> "qwen"
                    [] k = "TENSOR_PARALLEL_SIZE" -> "1"
                    [] k = "SERVER_PORT" -> "8000"])

(***************************************************************************)
(* The model catalog: validateModelsConfig and LoadModelsFromConfig.  An   *)
(* engine string is a sequence of pieces, ":" being the separator.         *)
(***************************************************************************)
EngineStrings ==
    {<<>>, <<"vllm">>, <<":", "docker">>, <<"vllm", ":", "docker">>,
     <<"vllm", ":", "k8s">>}

EngineLists == UNION {[1..n -> EngineStrings] : n \in 0..MaxEngines}

\* model.SupportedDevices: device type -> engine strings
SupportedDevicesSet ==
    UNION {[K -> EngineLists] : K \in SUBSET {"ascend", "kunlun"}}

ModelsConfigSet ==
    [Version : {"1"},
     Models : UNION {[1..n -> [ModelID : {"", "qwen"}, SourceID : {"src"},
                               SupportedDevices : SupportedDevicesSet]] :
                        n \in 0..1}]

\* strings.Contains(engine, ":")
ContainsColon(engine) == \E k \in DOMAIN engine : engine[k] = ":"

\* the checks of validateModelsConfig on one model; "" when it passes
validateModel(models, i) ==
    LET model == models[i] IN
    IF model.ModelID = "" THEN "model_id is required"
    ELSE IF \E j \in 1..(i - 1) : models[j].ModelID = model.ModelID
    THEN "duplicate model_id"
    ELSE IF model.SourceID = "" THEN "source_id is required"
    ELSE IF DOMAIN model.SupportedDevices = {}
    THEN "at least one supported device is required"
    ELSE IF \E d \in DOMAIN model.SupportedDevices :
               Len(model.SupportedDevices[d]) = 0
    THEN "at least one engine is required"
    ELSE IF \E d \in DOMAIN model.SupportedDevices :
               \E j \in DOMAIN model.SupportedDevices[d] :
                  model.SupportedDevices[d][j] = <<>>
    THEN "engine string is required"
    ELSE IF \E d \in DOMAIN model.SupportedDevices :
               \E j \in DOMAIN model.SupportedDevices[d] :
                  ~ContainsColon(model.SupportedDevices[d][j])
    THEN "invalid format"
    ELSE ""

\* validateModelsConfig: "" when the configuration is accepted
validateModelsConfig(config) ==
    IF config.Version = "" THEN "configuration version is required"
    ELSE IF Len(config.Models) = 0
    THEN "at least one model must be defined"
    ELSE IF \E i \in DOMAIN config.Models :
               validateModel(config.Models, i) # ""
    THEN "invalid model"
    ELSE ""

\* strings.SplitN(engine, ":", 2) of an engine with a separator
FirstColon(engine) == Min({k \in DOMAIN engine : engine[k] = ":"})

\* parseEngine: ok and the backend option, or not ok
parseEngine(engine) ==
    IF ~ContainsColon(engine)
    THEN [ok |-> FALSE, Type |-> <<>>, Mode |-> <<>>]
    ELSE LET c == FirstColon(engine)
             backendType == SubSeq(engine, 1, c - 1)
             deploymentMode == SubSeq(engine, c + 1, Len(engine))
         IN  IF backendType = <<>>
                \/ deploymentMode \notin {<<"docker">>, <<"native">>}
             THEN [ok |-> FALSE, Type |-> <<>>, Mode |-> <<>>]
             ELSE [ok |-> TRUE, Type |-> backendType,
                   Mode |-> deploymentMode]

\* the backend options of the engines that parse, in order
RECURSIVE BackendOptions(_)
BackendOptions(engines) ==
    IF engines = <<>> THEN <<>>
    ELSE LET opt == parseEngine(Head(engines))
         IN  (IF opt.ok THEN <<[Type |-> opt.Type, Mode |-> opt.Mode]>>
              ELSE <<>>) \o BackendOptions(Tail(engines))

\* the ModelSpec of one model: the devices with at least one option
ModelSpecOf(model) ==
    [ID |-> model.ModelID,
     SupportedDevices |->
        [d \in {x \in DOMAIN model.SupportedDevices :
                   Len(BackendOptions(model.SupportedDevices[x])) > 0} |->
            BackendOptions(model.SupportedDevices[d])]]

\* LoadModelsFromConfig on the configuration that LoadModelsConfig reads
LoadModelsFromConfig(config) ==
    IF validateModelsConfig(config) # ""
    THEN [err |-> "failed to load model configuration", specs |-> <<>>]
    ELSE [err |-> "",
          specs |-> [i \in DOMAIN config.Models |->
                        ModelSpecOf(config.Models[i])]]

(***************************************************************************)
(* concurrencyManager with cleanupInstance, for one instance id with the   *)
(* limit MaxK.  cleanupInstance closes the channel of the map and deletes  *)
(* the entry, so the channel a goroutine took from the map in acquireSlot  *)
(* need not be the one in the map: the channels are kept apart here, and   *)
(* acquireSlot is two steps, the lookup under cm.mu and the select.        *)
(***************************************************************************)
InitSem ==
    /\ channels = <<>>
    /\ semOf = 0
    /\ slotSem = [r \in Requests |-> 0]
    /\ slotpc = [r \in Requests |-> "idle"]
    /\ cleanups = 0

\* acquireSlot under cm.mu: the channel of the map, made when absent
acquireSlotLookup(r) ==
    /\ slotpc[r] = "idle"
    /\ UNCHANGED notSem
    /\ slotpc' = [slotpc EXCEPT ![r] = "select"]
    /\ UNCHANGED cleanups
    /\ IF semOf = 0
       THEN /\ channels' = Append(channels, [cap |-> MaxK, len |-> 0,
                                             closed |-> FALSE])
            /\ semOf' = Len(channels) + 1
            /\ slotSem' = [slotSem EXCEPT ![r] = Len(channels) + 1]
       ELSE /\ slotSem' = [slotSem EXCEPT ![r] = semOf]
            /\ UNCHANGED <<channels, semOf>>

\* the send case of the select: a send on a closed channel panics, a send
\* on a channel with room puts a token in, a send on a full channel waits
acquireSlotSend(r) ==
    /\ slotpc[r] = "select"
    /\ UNCHANGED notSem
    /\ UNCHANGED <<semOf, slotSem, cleanups>>
    /\ IF channels[slotSem[r]].closed
       THEN /\ slotpc' = [slotpc EXCEPT ![r] = "panic"]
            /\ UNCHANGED channels
       ELSE /\ channels[slotSem[r]].len < channels[slotSem[r]].cap
            /\ channels' = [channels EXCEPT ![slotSem[r]].len = @ + 1]
            /\ slotpc' = [slotpc EXCEPT ![r] = "acquired"]

\* the ctx.Done case of the select: the error, and no release function
acquireSlotDone(r) ==
    /\ slotpc[r] = "select"
    /\ UNCHANGED notSem
    /\ slotpc' = [slotpc EXCEPT ![r] = "idle"]
    /\ slotSem' = [slotSem EXCEPT ![r] = 0]
    /\ UNCHANGED <<channels, semOf, cleanups>>

\* the release function, <-sem: a token is taken out; on a closed channel
\* that is empty the receive returns at once
releaseSlot(r) ==
    /\ slotpc[r] = "acquired"
    /\ UNCHANGED notSem
    /\ \/ channels[slotSem[r]].len > 0
       \/ channels[slotSem[r]].closed
    /\ channels' = [channels EXCEPT ![slotSem[r]].len =
                                      IF @ > 0 THEN @ - 1 ELSE 0]
    /\ slotpc' = [slotpc EXCEPT ![r] = "idle"]
    /\ slotSem' = [slotSem EXCEPT ![r] = 0]
    /\ UNCHANGED <<semOf, cleanups>>

\* cleanupInstance under cm.mu: close(sem) and delete of the entry
cleanupInstance ==
    /\ cleanups < MaxCleanups
    /\ UNCHANGED notSem
    /\ cleanups' = cleanups + 1
    /\ UNCHANGED <<slotSem, slotpc>>
    /\ IF semOf # 0
       THEN /\ channels' = [channels EXCEPT ![semOf].closed = TRUE]
            /\ semOf' = 0
       ELSE UNCHANGED <<channels, semOf>>

NextSem ==
    \/ \E r \in Requests : acquireSlotLookup(r)
    \/ \E r \in Requests : acquireSlotSend(r)
    \/ \E r \in Requests : acquireSlotDone(r)
    \/ \E r \in Requests : releaseSlot(r)
    \/ cleanupInstance

(***************************************************************************)
(* StreamAdapter: OpenAI chat-completion chunks to Anthropic events.       *)
(***************************************************************************)
\* nil of a *string (Content, FinishReason); a *int (toolIndex, tc.Index)
\* is <<>> when nil and <<n>> when it points to n
Nil == "nil"

\* a tool-call fragment: its OpenAI index and its argument fragment
ToolCallSet == [Index : {<<>>, <<0>>, <<1>>}, Arguments : {"", "{"}]

ToolCallLists == UNION {[1..n -> ToolCallSet] : n \in 0..MaxToolCalls}

\* chunk.Usage, a *OpenAIUsage: <<>> when nil and <<u>> when it points to u
UsageSet ==
    {<<>>} \cup {<<[PromptTokens |-> 3, CompletionTokens |-> n]>> :
                    n \in 1..2}

\* a decoded chunk: its usage, the number of choices and, of the first
\* choice, the text delta, the tool-call fragments and the finish reason.
\* Usage comes in a chunk with no choices, or in a chunk with a choice
\* that carries at most a finish reason.
ChunkSet ==
    [Choices : {1}, Content : {Nil, "", "Hi"}, ToolCalls : ToolCallLists,
     FinishReason : {Nil, "stop", "tool_calls"}, Usage : {<<>>}]
    \cup [Choices : {1}, Content : {Nil}, ToolCalls : {<<>>},
          FinishReason : {Nil, "stop", "tool_calls"},
          Usage : UsageSet \ {<<>>}]
    \cup [Choices : {0}, Content : {Nil}, ToolCalls : {<<>>},
          FinishReason : {Nil}, Usage : UsageSet]

\* one event written to the client; index -1: the event has no index,
\* output_tokens -1: the event has no usage
Event(type, index, kind) ==
    [type |-> type, index |-> index, kind |-> kind, output_tokens |-> -1]

\* an adapter st = [sa |-> fields, w |-> output] after writing the event
Emit(st, e) == [st EXCEPT !.w = Append(@, e)]

emitContentBlockStart(st, index, kind) ==
    Emit(st, Event("content_block_start", index, kind))

emitTextDelta(st, index) ==
    Emit(st, Event("content_block_delta", index, "text_delta"))

emitInputJSONDelta(st, index) ==
    Emit(st, Event("content_block_delta", index, "input_json_delta"))

emitContentBlockStop(st, index) ==
    Emit(st, Event("content_block_stop", index, ""))

\* mapFinishReason without the case of length
mapFinishReason_NoLength(reason) ==
    CASE reason = "stop" -> "end_turn"
      [] reason = "tool_calls" -> "tool_use"
      [] OTHER -> "end_turn"

mapFinishReason(reason) ==
    CASE reason = "stop" -> "end_turn"
      [] reason = "length" -> "max_tokens"
      [] reason = "tool_calls" -> "tool_use"
      [] OTHER -> "end_turn"

emitMessageDelta(st, stopReason) ==
    Emit(st, [Event("message_delta", -1, stopReason)
                EXCEPT !.output_tokens = st.sa.outputTokens])

\* message_stop and the terminal "data: [DONE]" marker
emitMessageStop(st) ==
    Emit(Emit(st, Event("message_stop", -1, "")), Event("[DONE]", -1, ""))

\* the loop of handleFinish over the tool blocks i..lastBlockIndex
RECURSIVE StopToolBlocks(_, _)
StopToolBlocks(st, i) ==
    IF i > st.sa.lastBlockIndex THEN st
    ELSE StopToolBlocks(emitContentBlockStop(st, i), i + 1)

\* handleFinish without the finished guard
handleFinish_NoGuard(st, reason) ==
    LET s1 == [st EXCEPT !.sa.finished = TRUE]
        s2 == StopToolBlocks(s1, 1)
        s3 == IF ~s2.sa.textBlockDone
              THEN [emitContentBlockStop(s2, 0)
                      EXCEPT !.sa.textBlockDone = TRUE]
              ELSE s2
    IN  emitMessageStop(emitMessageDelta(s3, mapFinishReason(reason)))

handleFinish(st, reason) ==
    IF st.sa.finished THEN st
    ELSE LET s1 == [st EXCEPT !.sa.finished = TRUE]
             s2 == StopToolBlocks(s1, 1)
             s3 == IF ~s2.sa.textBlockDone
                   THEN [emitContentBlockStop(s2, 0)
                           EXCEPT !.sa.textBlockDone = TRUE]
                   ELSE s2
         IN  emitMessageStop(emitMessageDelta(s3, mapFinishReason(reason)))

finalize(st) == IF ~st.sa.finished THEN handleFinish(st, "stop") ELSE st

\* ToolCallStep that opens a block for every fragment
ToolCallStep_AlwaysOpen(st, tc) ==
    LET s1 == emitContentBlockStart(
                  [st EXCEPT !.sa.toolIndex =
                                 <<IF tc.Index # <<>> THEN tc.Index[1]
                                   ELSE 0>>,
                             !.sa.lastBlockIndex = @ + 1],
                  st.sa.lastBlockIndex + 1, "tool_use")
    IN  IF tc.Arguments # ""
        THEN emitInputJSONDelta(s1, s1.sa.lastBlockIndex)
        ELSE s1

\* the body of the loop of processToolCalls for the fragment tc
ToolCallStep(st, tc) ==
    LET idx == IF tc.Index # <<>> THEN tc.Index[1] ELSE 0
        s1 == IF st.sa.toolIndex = <<>> \/ idx # st.sa.toolIndex[1]
              THEN emitContentBlockStart(
                       [st EXCEPT !.sa.toolIndex = <<idx>>,
                                  !.sa.lastBlockIndex = @ + 1],
                       st.sa.lastBlockIndex + 1, "tool_use")
              ELSE st
    IN  IF tc.Arguments # ""
        THEN emitInputJSONDelta(s1, s1.sa.lastBlockIndex)
        ELSE s1

RECURSIVE ToolCallLoop(_, _)
ToolCallLoop(st, toolCalls) ==
    IF toolCalls = <<>> THEN st
    ELSE ToolCallLoop(ToolCallStep(st, Head(toolCalls)), Tail(toolCalls))

\* processToolCalls that leaves the text block open
processToolCalls_NoClose(st, toolCalls) == ToolCallLoop(st, toolCalls)

processToolCalls(st, toolCalls) ==
    LET s1 == IF st.sa.toolIndex = <<>> /\ ~st.sa.textBlockDone
              THEN [emitContentBlockStop(st, 0)
                      EXCEPT !.sa.textBlockDone = TRUE]
              ELSE st
    IN  ToolCallLoop(s1, toolCalls)

processChunk(st0, chunk) ==
    LET st == IF chunk.Usage # <<>>
              THEN [st0 EXCEPT
                      !.sa.inputTokens = chunk.Usage[1].PromptTokens,
                      !.sa.outputTokens = chunk.Usage[1].CompletionTokens]
              ELSE st0
    IN
    IF chunk.Choices = 0 THEN st
    ELSE LET s1 == IF /\ chunk.Content # Nil /\ chunk.Content # ""
                      /\ st.sa.textBlockOpen /\ ~st.sa.textBlockDone
                   THEN emitTextDelta(st, 0)
                   ELSE st
             s2 == IF Len(chunk.ToolCalls) > 0
                   THEN processToolCalls(s1, chunk.ToolCalls)
                   ELSE s1
         IN  IF chunk.FinishReason # Nil
             THEN handleFinish(s2, chunk.FinishReason)
             ELSE s2

(***************************************************************************)
(* ConvertResponse: a buffered OpenAI chat response to an Anthropic        *)
(* message.                                                                *)
(***************************************************************************)
\* message.content: null, a string, or something that is not a string
ContentValues == {Nil, "", "Hi", "[parts]"}

\* tool_calls[i]: id, function.name, function.arguments
CallSet == [ID : {"", "tc1"}, Name : {"sum", "get"},
            Arguments : {"", "{\"a\":1}", "{"}]

CallLists == UNION {[1..n -> CallSet] : n \in 0..MaxCalls}

FinishReasons == {"stop", "length", "tool_calls", "", "content_filter",
                  "function_call"}

\* the decoded response: the number of choices and the first choice
ResponseSet ==
    [Choices : {1}, Content : ContentValues, ToolCalls : CallLists,
     FinishReason : FinishReasons]
    \cup [Choices : {0}, Content : {Nil}, ToolCalls : {<<>>},
          FinishReason : {""}]

\* messageText: the string content; "" for null and for content that
\* does not decode into a string
messageText(msg) ==
    CASE msg.Content = Nil -> ""
      [] msg.Content = "[parts]" -> ""
      [] OTHER -> msg.Content

\* parseToolArguments: the decoded object, the empty object for "", and
\* {"raw": args} for arguments that are not a JSON object
parseToolArguments(args) ==
    CASE args = "" -> [object |-> "{}"]
      [] args = "{\"a\":1}" -> [object |-> "{\"a\":1}"]
      [] OTHER -> [raw |-> args]

coalesce(a, b) == IF a # "" THEN a ELSE b

ToolUseBlock(tc) ==
    [Type |-> "tool_use", Text |-> "", ID |-> coalesce(tc.ID, "toolu_new"),
     Name |-> tc.Function, Input |-> parseToolArguments(tc.Arguments)]

TextBlock(text) ==
    [Type |-> "text", Text |-> text, ID |-> "", Name |-> "",
     Input |-> [object |-> ""]]

\* the loop of buildContentBlocks over msg.ToolCalls
RECURSIVE AppendToolUse(_, _)
AppendToolUse(blocks, calls) ==
    IF calls = <<>> THEN blocks
    ELSE AppendToolUse(
             Append(blocks,
                    ToolUseBlock([ID |-> Head(calls).ID,
                                  Function |-> Head(calls).Name,
                                  Arguments |-> Head(calls).Arguments])),
             Tail(calls))

\* buildContentBlocks without the block Anthropic requires
buildContentBlocks_NoEmptyBlock(msg) ==
    AppendToolUse(IF messageText(msg) # ""
                  THEN <<TextBlock(messageText(msg))>> ELSE <<>>,
                  msg.ToolCalls)

buildContentBlocks(msg) ==
    LET b1 == IF messageText(msg) # ""
              THEN <<TextBlock(messageText(msg))>> ELSE <<>>
        b2 == AppendToolUse(b1, msg.ToolCalls)
    IN  IF Len(b2) = 0 THEN <<TextBlock("")>> ELSE b2

ConvertResponse(resp) ==
    IF resp.Choices = 0
    THEN [err |-> "OpenAI response contains no choices", Content |-> <<>>,
          StopReason |-> "", events |-> <<>>]
    ELSE [err |-> "", Content |-> buildContentBlocks(resp),
          StopReason |-> mapFinishReason(resp.FinishReason),
          events |-> <<>>]

\* the same answer on the streaming path: Transform of the stream whose
\* one chunk carries the finish reason
StreamResponse(resp) ==
    LET opened == [sa |-> [textBlockOpen |-> TRUE, textBlockDone |-> FALSE,
                           toolIndex |-> <<>>, lastBlockIndex |-> 0,
                           finished |-> FALSE, inputTokens |-> 0,
                           outputTokens |-> 0],
                   w |-> <<Event("message_start", -1, ""),
                           Event("content_block_start", 0, "text"),
                           Event("ping", -1, "")>>]
        chunk == [Choices |-> resp.Choices, Content |-> Nil,
                  ToolCalls |-> <<>>, Usage |-> <<>>,
                  FinishReason |-> IF resp.Choices = 0 THEN Nil
                                   ELSE resp.FinishReason]
    IN  [err |-> "", Content |-> <<>>, StopReason |-> "",
         events |-> finalize(processChunk(opened, chunk)).w]

(***************************************************************************)
(* AnthropicHandler.HandleCountTokens.  A request is its method, the       *)
(* length of its body and whether the body decodes as JSON; the shortest   *)
(* body that decodes has two bytes.                                        *)
(***************************************************************************)
CountRequests ==
    {q \in [Method : {"POST", "GET"}, Len : 0..MaxBody, json : BOOLEAN] :
        q.json => q.Len >= 2}

\* HandleCountTokens without the minimum of one token
HandleCountTokens_NoMinimum(q) ==
    IF q.Method # "POST"
    THEN [status |-> 405, input_tokens |-> 0]
    ELSE IF ~q.json
    THEN [status |-> 400, input_tokens |-> 0]
    ELSE [status |-> 200, input_tokens |-> q.Len \div 4]

HandleCountTokens(q) ==
    IF q.Method # "POST"
    THEN [status |-> 405, input_tokens |-> 0]
    ELSE IF ~q.json
    THEN [status |-> 400, input_tokens |-> 0]
    ELSE LET charCount == q.Len
             estimatedTokens == charCount \div 4
         IN  [status |-> 200,
              input_tokens |-> IF estimatedTokens < 1 THEN 1
                               ELSE estimatedTokens]

\* NewStreamAdapter: the zero values of the fields
InitStream ==
    /\ sa = [textBlockOpen |-> FALSE, textBlockDone |-> FALSE,
             toolIndex |-> <<>>, lastBlockIndex |-> 0, finished |-> FALSE,
             inputTokens |-> 0, outputTokens |-> 0]
    /\ written = <<>>
    /\ usageSeen = 0
    /\ spc = "init"
    /\ lines = 0

\* Transform before the scan loop: the opening envelope
TransformOpen ==
    /\ spc = "init"
    /\ UNCHANGED notStream
    /\ written' = <<Event("message_start", -1, ""),
                    Event("content_block_start", 0, "text"),
                    Event("ping", -1, "")>>
    /\ sa' = [sa EXCEPT !.textBlockOpen = TRUE]
    /\ spc' = "scan"
    /\ UNCHANGED <<lines, usageSeen>>

\* one turn of the scan loop on a line that is skipped: no "data: " prefix,
\* or a payload that is not a JSON chunk
TransformSkip ==
    /\ spc = "scan"
    /\ lines < MaxLines
    /\ UNCHANGED notStream
    /\ lines' = lines + 1
    /\ UNCHANGED <<sa, written, spc, usageSeen>>

\* one turn of the scan loop on a data line carrying the chunk
TransformChunk(chunk) ==
    /\ spc = "scan"
    /\ lines < MaxLines
    /\ UNCHANGED notStream
    /\ lines' = lines + 1
    /\ LET st == processChunk([sa |-> sa, w |-> written], chunk)
       IN  sa' = st.sa /\ written' = st.w
    /\ usageSeen' = IF chunk.Usage # <<>>
                    THEN chunk.Usage[1].CompletionTokens
                    ELSE usageSeen
    /\ UNCHANGED spc

\* the scan loop ends, on "data: [DONE]" or at the end of the upstream
\* body, and Transform finalizes
TransformEnd ==
    /\ spc = "scan"
    /\ UNCHANGED notStream
    /\ LET st == finalize([sa |-> sa, w |-> written])
       IN  sa' = st.sa /\ written' = st.w
    /\ spc' = "done"
    /\ UNCHANGED <<lines, usageSeen>>

NextStream ==
    \/ TransformOpen
    \/ TransformSkip
    \/ \E chunk \in ChunkSet : TransformChunk(chunk)
    \/ TransformEnd

InitBoot == boots = 0 /\ recovered = {}

\* no function call under study
InitPure == arg = <<>> /\ result = <<>> /\ returned = FALSE

\* the subsystems as constructed
InitSystem ==
    /\ InitSched /\ InitGate /\ InitStream /\ InitBoot /\ InitPorts
    /\ InitSem

Init == InitSystem /\ InitPure

\* the function under study returns the value v
Returns(v) ==
    /\ ~returned
    /\ returned' = TRUE
    /\ result' = v
    /\ UNCHANGED arg
    /\ UNCHANGED notPure

\* one call of FindInstanceByModel on any instance list and model name
InitFind ==
    /\ InitSystem
    /\ arg \in [instances : InstanceLists, modelName : ModelNames]
    /\ result = <<>>
    /\ returned = FALSE

NextFind == Returns(FindInstanceByModel(arg.instances, arg.modelName))

SpecFind == InitFind /\ [][NextFind]_vars

\* one LoadModelsFromConfig on any configuration file
InitLoad ==
    /\ InitSystem
    /\ arg \in ModelsConfigSet
    /\ result = <<>>
    /\ returned = FALSE

NextLoad == Returns(LoadModelsFromConfig(arg))

SpecLoad == InitLoad /\ [][NextLoad]_vars

\* one Create with any user environment and any sandbox environment
InitEnv ==
    /\ InitSystem
    /\ arg \in [Environment : EnvsOf("user"), sandboxEnv : EnvsOf("sandbox")]
    /\ result = <<>>
    /\ returned = FALSE

NextEnv == Returns(CreateEnvironment(arg.Environment, arg.sandboxEnv))

SpecEnv == InitEnv /\ [][NextEnv]_vars

\* the PortAllocator called in any order, on a host where the started
\* containers of L listen on their ports
Listening(L) ==
    [q \in L |-> [model_id |-> "qwen", device_indices |-> <<>>,
                  port |-> q, state |-> "running"]]

InitAllocator ==
    /\ containers \in {Listening(L) : L \in SUBSET PortRange}
    /\ instances = EmptyMap
    /\ allocated = {}
    /\ deviceAllocator = FALSE
    /\ now = 0
    /\ pc = [p \in Procs |-> "idle"]
    /\ opts = [p \in Procs |-> NoOpts]
    /\ local = [p \in Procs |-> NoLocal]
    /\ ret = NoRet
    /\ runs = 0
    /\ InitGate /\ InitStream /\ InitBoot /\ InitPure /\ InitPorts
    /\ InitSem

NextPorts ==
    \/ CallGetFreePort
    \/ \E q \in PortArgs : CallReleasePort(q)
    \/ \E q \in PortArgs : CallMarkPortUsed(q)

SpecPorts == InitAllocator /\ [][NextPorts]_vars

\* one call of Runtime.Create (through Manager.Create) on any parameters
InitCreate ==
    /\ InitSystem
    /\ arg \in CreateParamsSet
    /\ result = <<>>
    /\ returned = FALSE

NextCreate == Returns(Create(arg))

SpecCreate == InitCreate /\ [][NextCreate]_vars

\* one request to an OpenAI route or to /v1/messages
InitProxy ==
    /\ InitSystem
    /\ arg \in ProxyRequests
    /\ result = <<>>
    /\ returned = FALSE

ServeOpenAI ==
    /\ arg.route = "openai"
    /\ Returns(ProxyRequest(arg))

ServeMessages ==
    /\ arg.route = "anthropic"
    /\ Returns(HandleMessages(arg))

NextProxy == ServeOpenAI \/ ServeMessages

SpecProxy == InitProxy /\ [][NextProxy]_vars

\* one request to /v1/messages/count_tokens
InitCount ==
    /\ InitSystem
    /\ arg \in CountRequests
    /\ result = <<>>
    /\ returned = FALSE

NextCount == Returns(HandleCountTokens(arg))

SpecCount == InitCount /\ [][NextCount]_vars

\* one backend answer is converted, on the buffered or the streaming path
InitConvert ==
    /\ InitSystem
    /\ arg \in [path : {"buffered", "streaming"}, resp : ResponseSet]
    /\ result = <<>>
    /\ returned = FALSE

ConvertBuffered ==
    /\ arg.path = "buffered"
    /\ Returns(ConvertResponse(arg.resp))

ConvertStreaming ==
    /\ arg.path = "streaming"
    /\ Returns(StreamResponse(arg.resp))

NextConvert == ConvertBuffered \/ ConvertStreaming

SpecConvert == InitConvert /\ [][NextConvert]_vars

\* one header passes the proxy: the client's header on its way to the
\* backend, or the backend's header on its way to the client
InitHeaders ==
    /\ InitSystem
    /\ arg \in [dir : {"request", "response"}, header : HeaderSet,
                hasBody : BOOLEAN]
    /\ result = <<>>
    /\ returned = FALSE

ForwardHeaders ==
    /\ arg.dir = "request"
    /\ Returns(ForwardRequest(arg.header, arg.hasBody))

RelayHeaders ==
    /\ arg.dir = "response"
    /\ Returns(copyResponseHeaders(arg.header, EmptyMap))

NextHeaders == ForwardHeaders \/ RelayHeaders

SpecHeaders == InitHeaders /\ [][NextHeaders]_vars

\* one call of allocate on any topology, free set and count
InitAllocate ==
    /\ InitSystem
    /\ arg \in [topology : Topologies, F : SUBSET TopoIndices,
                n : 1..(TopoDevices - 1)]
    /\ result = <<>>
    /\ returned = FALSE

NextAllocate == Returns(allocate(arg.topology, arg.F, arg.n))

SpecAllocate == InitAllocate /\ [][NextAllocate]_vars

SpecGate == Init /\ [][NextGate]_vars

SpecSem == Init /\ [][NextSem]_vars

SpecStream == Init /\ [][NextStream]_vars

\* every forwarded request completes and runs its deferred release
SpecGateFair ==
    SpecGate /\ \A r \in Requests : WF_vars(ProxyRequestReturn(r))

NextSched ==
    \/ \E p \in Procs : \E o \in RunOptionsSet : \E t \in now..MaxTime :
          RunDedup(p, o, t)
    \/ \E p \in Procs : RunAllocate(p)
    \/ \E p \in Procs : RunPort(p)
    \/ \E p \in Procs : RunCreate(p)
    \/ \E p \in Procs : \E ok \in BOOLEAN : RunStart(p, ok)
    \/ \E p \in Procs : \E healthy \in BOOLEAN : RunHealth(p, healthy)
    \/ \E p \in Procs : RunRollback(p)
    \/ \E id \in DOMAIN instances : Stop(id)

SpecSched == Init /\ [][NextSched]_vars

\* Calls issued one after the other: at most one caller is inside a call.
Sequential == Cardinality({p \in Procs : pc[p] # "idle"}) <= 1

NextSchedSeq == NextSched /\ Sequential'

SpecSchedSeq == Init /\ [][NextSchedSeq]_vars

\* sequential calls of a daemon that may be killed and started again
NextRecover ==
    \/ NextSchedSeq
    \/ \E S \in SUBSET (DOMAIN containers) : Restart(S)

SpecRecover == Init /\ [][NextRecover]_vars

(***************************************************************************)
(* Properties of the scheduler.                                            *)
(***************************************************************************)
RunningInstances ==
    {i \in DOMAIN instances : instances[i].State = StateRunning}

\* the devices an instance holds: the xw.device_indices label of its container
DevicesOf(i) ==
    IF i \in DOMAIN containers THEN Range(containers[i].device_indices)
    ELSE {}

\* C1: after any sequence of Run / Stop / Remove calls, the device sets of
\* two distinct running instances are disjoint.
C1_DevicesDisjoint ==
    \A a, b \in RunningInstances :
        a # b => DevicesOf(a) \cap DevicesOf(b) = {}

\* the Run of p has made its allocation decision and has not returned
HasAllocated(p) == pc[p] \in {"port", "create", "start", "health", "rollback"}

\* C2: two concurrent Runs for different models that both let the allocator
\* choose never hold a device index in common.
C2_ConcurrentAllocDisjoint ==
    \A p, q \in Procs :
        (/\ p # q
         /\ HasAllocated(p) /\ HasAllocated(q)
         /\ opts[p].ModelID # opts[q].ModelID
         /\ opts[p].device = <<>> /\ opts[q].device = <<>>)
        => Range(local[p].devices) \cap Range(local[q].devices) = {}

\* C3: after any sequence of Run / Stop calls, the ports of two distinct
\* running instances are different.
C3_PortsDistinct ==
    \A a, b \in RunningInstances :
        a # b => instances[a].Port # instances[b].Port

C5_OneRunningPerModel ==
    \A m \in Models : Cardinality(RunningOf(m)) <= 1

\* the container of the Run of p exists (Runtime.Create has succeeded)
HasCreated(p) == pc[p] \in {"start", "health", "rollback"}

RecoveredPorts ==
    {instances[i].Port : i \in recovered \cap DOMAIN instances}

RecoveredDevices ==
    UNION {DevicesOf(i) : i \in recovered \cap DOMAIN instances}

\* C13: when the daemon is killed and started again while containers
\* exist, the instances after start-up are the instances from before
\* restricted to the containers that are still there, with the same ids,
\* models, ports and devices; each of their ports is marked in the port
\* allocator; and an instance that a later Run creates has no device and
\* no port that a recovered instance holds.
C13_Reconciled ==
    /\ [][boots' = boots + 1
          => /\ DOMAIN instances' = DOMAIN instances \cap DOMAIN containers'
             /\ \A i \in DOMAIN instances' :
                   /\ instances'[i].ModelID = instances[i].ModelID
                   /\ instances'[i].Port = instances[i].Port
                   /\ containers'[i].device_indices =
                          containers[i].device_indices
                   /\ instances'[i].Port \in allocated']_vars
    /\ [][\A i \in (DOMAIN instances') \ (DOMAIN instances) :
             boots' = boots
             => /\ instances'[i].Port \notin RecoveredPorts
                /\ Range(containers'[i].device_indices)
                       \cap RecoveredDevices = {}]_vars

\* C15: a Run with an explicit device list of which an index is not in
\* the inventory, or is held by a live instance, fails at the device step
\* and creates no container.
C15_ExplicitDevicesChecked ==
    [][\A p \in Procs :
          (/\ pc[p] = "allocate"
           /\ pc'[p] # "allocate"
           /\ opts[p].device # <<>>
           /\ \/ ~(Range(opts[p].device) \subseteq AllDevices)
              \/ Range(opts[p].device) \cap AllocatedDevices # {})
          => /\ pc'[p] = "idle"
             /\ ret'.err # ""
             /\ containers' = containers]_vars

(***************************************************************************)
(* Properties of the concurrency gate.                                     *)
(***************************************************************************)
\* the requests in flight to the backend of instance i
InFlight(i) == {r \in Requests : rinst[r] = i /\ rpc[r] = "forward"}

\* the requests that hold a slot of the semaphore of instance i
Holders(i) == {r \in InFlight(i) : release[r]}

\* C7: for an instance whose max_concurrent is k > 0, the number of requests
\* that have acquired a slot and not yet released it never exceeds k.
C7_InFlightBounded ==
    \A i \in GateInstances :
        MaxConcurrency(i) > 0
        => /\ InFlight(i) = Holders(i)
           /\ Cardinality(InFlight(i)) <= MaxConcurrency(i)

\* an instance with a limit above one has all its slots in use and a
\* request waiting
C7_Witness ==
    \E i \in GateInstances :
        /\ MaxConcurrency(i) > 1
        /\ Cardinality(InFlight(i)) = MaxConcurrency(i)
        /\ Waiters(i) # {}

\* C8: a request whose context is cancelled while it is blocked waiting for
\* a slot leaves acquireSlot at once with the error and without a release
\* function, and the semaphore is as it was: at every moment the tokens in
\* a semaphore are exactly those of the requests holding a slot.
C8_CancelLeaksNoSlot ==
    /\ [](\A i \in DOMAIN semaphores :
             semaphores[i].len = Cardinality(Holders(i)))
    /\ [](\A r \in Requests : rpc[r] = "parked" => ~ctxDone[r])
    /\ [][\A r \in Requests :
             (rpc[r] = "parked" /\ rpc'[r] # "parked" /\ rpc'[r] # "forward")
             => /\ rpc'[r] = "failed"
                /\ ~release'[r]
                /\ semaphores' = semaphores]_vars

\* a request was cancelled while blocked, and a slot is held
C8_Witness ==
    \E r \in Requests :
        /\ rpc[r] = "failed" /\ waited[r]
        /\ \E i \in DOMAIN semaphores : Holders(i) # {}

\* C9: a blocked request goes on to the upstream call only in a step in
\* which a holder of a slot of the same instance releases it, and then the
\* slots held do not exceed the limit; a release while requests are blocked
\* lets one of them go on; and, the forwarded requests completing (weak
\* fairness), no request stays blocked forever.
C9_WaitersProceed ==
    /\ [][\A w \in Requests :
             (rpc[w] = "parked" /\ rpc'[w] = "forward")
             => /\ \E h \in Holders(rinst[w]) : rpc'[h] = "done"
                /\ semaphores'[rinst[w]].len <= MaxConcurrency(rinst[w])
                /\ release'[w]]_vars
    /\ [][\A h \in Requests :
             (rpc[h] = "forward" /\ release[h] /\ rpc'[h] = "done"
              /\ Waiters(rinst[h]) # {})
             => \E w \in Waiters(rinst[h]) : rpc'[w] = "forward"]_vars
    /\ \A r \in Requests : (rpc[r] = "parked") ~> (rpc[r] # "parked")

\* a request that had blocked holds a slot
C9_Witness ==
    \E r \in Requests : rpc[r] = "forward" /\ waited[r] /\ release[r]

(***************************************************************************)
(* Properties of the stream adapter.                                       *)
(***************************************************************************)
\* the positions in S of the events of the type for the block index
EventsAt(S, type, index) ==
    {k \in S : written[k].type = type /\ written[k].index = index}

\* C10: when Transform has returned, every content_block_delta for an
\* index is preceded in the output by exactly one content_block_start and
\* followed by exactly one content_block_stop for that index.
C10_DeltasBracketed ==
    spc = "done"
    => \A j \in DOMAIN written :
          written[j].type = "content_block_delta"
          => /\ Cardinality(EventsAt(1..(j - 1), "content_block_start",
                                     written[j].index)) = 1
             /\ Cardinality(EventsAt((j + 1)..Len(written),
                                     "content_block_stop",
                                     written[j].index)) = 1

\* the positions of the output that carry an event of the type
EventsOf(type) == {k \in DOMAIN written : written[k].type = type}

\* C11: when Transform has returned, its output starts with message_start,
\* content_block_start(index 0, text), ping, and it ends with message_stop
\* followed by the terminal "data: [DONE]" marker.
C11_Envelope ==
    spc = "done"
    => /\ Len(written) >= 5
       /\ written[1] = Event("message_start", -1, "")
       /\ written[2] = Event("content_block_start", 0, "text")
       /\ written[3] = Event("ping", -1, "")
       /\ written[Len(written) - 1] = Event("message_stop", -1, "")
       /\ written[Len(written)] = Event("[DONE]", -1, "")

\* the block indices that have a content_block_start and no
\* content_block_stop among the first n events of the output
OpenBlocks(n) ==
    {written[k].index : k \in {x \in 1..n :
                                  written[x].type = "content_block_start"}}
    \ {written[k].index : k \in {x \in 1..n :
                                    written[x].type = "content_block_stop"}}

\* the first position of the run of content_block_stop events that ends
\* just before position k
RECURSIVE StopRunStart(_)
StopRunStart(k) ==
    IF k > 1 /\ written[k - 1].type = "content_block_stop"
    THEN StopRunStart(k - 1)
    ELSE k

\* the closing sequence ends the message at position k of the output: a
\* content_block_stop for every block open before it, each once, then
\* message_delta at k, message_stop and "data: [DONE]"
ClosingAt(k) ==
    LET j == StopRunStart(k)
    IN  /\ k + 2 <= Len(written)
        /\ written[k].type = "message_delta"
        /\ written[k + 1] = Event("message_stop", -1, "")
        /\ written[k + 2] = Event("[DONE]", -1, "")
        /\ {written[i].index : i \in j..(k - 1)} = OpenBlocks(j - 1)
        /\ \A i1, i2 \in j..(k - 1) :
              written[i1].index = written[i2].index => i1 = i2

\* C12: the closing sequence (content_block_stop for every open block,
\* message_delta, message_stop, data: [DONE]) is in the output exactly
\* once when Transform has returned and never more than once before,
\* whatever finish_reason chunks the upstream sent; when the upstream ends
\* with no finish_reason the closing sequence is written at the end of the
\* stream with stop_reason end_turn.
C12_ClosingOnce ==
    /\ [](/\ Cardinality(EventsOf("message_delta")) = IF sa.finished
                                                      THEN 1 ELSE 0
          /\ Cardinality(EventsOf("message_stop")) = IF sa.finished
                                                     THEN 1 ELSE 0
          /\ Cardinality(EventsOf("[DONE]")) = IF sa.finished
                                               THEN 1 ELSE 0
          /\ \A k \in EventsOf("message_delta") : ClosingAt(k)
          /\ spc = "done" => sa.finished)
    /\ [][(spc = "scan" /\ spc' = "done")
          => IF sa.finished
             THEN written' = written
             ELSE /\ Len(written') >= Len(written) + 3
                  /\ SubSeq(written', 1, Len(written)) = written
                  /\ written'[Len(written') - 2].type = "message_delta"
                  /\ written'[Len(written') - 2].kind = "end_turn"
                  /\ EventsOf("message_delta")' = {Len(written') - 2}]_vars

\* Transform has returned after a stream that opened a tool block and
\* carried a finish_reason other than the one finalize makes up
C12_Witness ==
    /\ spc = "done"
    /\ sa.lastBlockIndex >= 1
    /\ \E k \in EventsOf("message_delta") : written[k].kind = "tool_use"
    /\ lines = MaxLines

\* the block indices with an event of the type among the events at S
BlocksWith(S, type) ==
    {written[k].index : k \in {x \in S : written[x].type = type}}

\* C37: at every moment of every stream, chunks after a finish_reason
\* chunk included, nothing is in the output after the terminal
\* "data: [DONE]" marker, and every content block that was started has its
\* content_block_stop before message_stop.
C37_NothingAfterDone ==
    /\ \A k \in EventsOf("[DONE]") : k = Len(written)
    /\ \A k \in EventsOf("message_stop") :
          BlocksWith(DOMAIN written, "content_block_start")
          \subseteq BlocksWith(1..(k - 1), "content_block_stop")

\* C38: when Transform has returned, the output_tokens of the
\* message_delta event is the completion_tokens of the last chunk of the
\* upstream stream that carried usage, 0 when no chunk carried usage,
\* whether that chunk came before, with or after the finish_reason chunk.
C38_OutputTokens ==
    spc = "done"
    => \A k \in EventsOf("message_delta") :
          written[k].output_tokens = usageSeen

(***************************************************************************)
(* Properties of the instance lookup.                                      *)
(***************************************************************************)
\* two letters are the same up to case
SameLetter(a, b) ==
    \/ a = b
    \/ {a, b} = {"q", "Q"}
    \/ {a, b} = {"w", "W"}

\* the strings are equal up to case
EqualFold(x, y) ==
    /\ Len(x) = Len(y)
    /\ \A k \in DOMAIN x : SameLetter(x[k], y[k])

\* the name the instance answers to
Answers(inst) == IF Len(inst.Alias) = 0 THEN inst.ModelID ELSE inst.Alias

\* the running instances of the list whose name equals the requested name,
\* and those of which one name starts with the other, up to case
ExactMatches ==
    {k \in DOMAIN arg.instances :
        /\ arg.instances[k].State = StateRunning
        /\ EqualFold(Answers(arg.instances[k]), arg.modelName)}

PrefixMatches ==
    {k \in DOMAIN arg.instances :
        /\ arg.instances[k].State = StateRunning
        /\ LET a == Answers(arg.instances[k])
               m == arg.modelName
           IN  \/ Len(m) <= Len(a) /\ EqualFold(SubSeq(a, 1, Len(m)), m)
               \/ Len(a) <= Len(m) /\ EqualFold(SubSeq(m, 1, Len(a)), a)}

\* C14: FindInstanceByModel returns only running instances, compares
\* names without regard to case, returns an instance whose alias (model
\* id when the alias is empty) equals the requested name whenever the list
\* has one, at any position; returns a prefix match only when there is no
\* exact match; and returns the error exactly when nothing matches.
C14_FindInstance ==
    returned
    => /\ ExactMatches # {} => result \in ExactMatches
       /\ (ExactMatches = {} /\ PrefixMatches # {})
              => result \in PrefixMatches
       /\ (ExactMatches = {} /\ PrefixMatches = {}) => result = 0

\* the lookup returned the exact match at the second position of a list
\* whose first instance is running and matches by prefix only
C14_Witness ==
    /\ returned
    /\ result = 2
    /\ 2 \in ExactMatches
    /\ 1 \in PrefixMatches \ ExactMatches

(***************************************************************************)
(* Properties of the device selection policy.                              *)
(***************************************************************************)
\* the topology with the boxes [0, 1] and [2, 3]
TwoBoxes == [d \in TopoIndices |-> IF d <= 1 THEN 0 ELSE 1]

\* C16: allocate(_, n) with n not larger than the free set returns an
\* n-subset of the free devices whose total pairwise distance is minimal,
\* and among those of minimal distance the first in lexicographic order of
\* the indices; with boxes [0,1] and [2,3] and free set {0,1,2},
\* allocate(_, 2) returns {0,1}.
C16_ClosestDevices ==
    (returned /\ arg.n <= Cardinality(arg.F))
    => /\ Len(result) = arg.n
       /\ Range(result) \subseteq arg.F
       /\ Cardinality(Range(result)) = arg.n
       /\ \A k \in 1..(Len(result) - 1) : result[k] < result[k + 1]
       /\ \A T \in SUBSET arg.F :
             Cardinality(T) = arg.n
             => \/ TotalDistance(arg.topology, Range(result))
                       < TotalDistance(arg.topology, T)
                \/ /\ TotalDistance(arg.topology, Range(result))
                          = TotalDistance(arg.topology, T)
                   /\ \/ Range(result) = T
                      \/ LexLess(result, Ascending(T))
       /\ (arg.topology = TwoBoxes /\ arg.F = {0, 1, 2} /\ arg.n = 2)
              => result = <<0, 1>>

\* allocate has returned two devices of one box although lower indices
\* of different boxes were free
C16_Witness ==
    /\ returned
    /\ arg.n = 2
    /\ arg.topology # NoTopology
    /\ Len(result) = 2
    /\ Min(arg.F) \notin Range(result)
    /\ TotalDistance(arg.topology, Range(result)) = 0

(***************************************************************************)
(* Properties of the header copying.                                       *)
(***************************************************************************)
\* the header without the hop-by-hop names
EndToEnd(h) == [name \in (DOMAIN h) \ hopByHopHeaders |-> h[name]]

\* ForwardRequest fills in the content type of a request with a body
DefaultsContentType ==
    /\ arg.dir = "request"
    /\ arg.hasBody
    /\ \/ "Content-Type" \notin DOMAIN arg.header
       \/ arg.header["Content-Type"][1] = ""

\* C17 as stated: the forwarded request carries exactly the client's
\* headers, every value, except the hop-by-hop headers Connection,
\* Keep-Alive, Proxy-Authenticate, Proxy-Authorization, TE, Trailers,
\* Transfer-Encoding and Upgrade, and the same holds of the backend's
\* response headers copied to the client.
C17_ExactlyClientHeaders ==
    returned => result = EndToEnd(arg.header)

\* C17 as amended: no hop-by-hop header passes; every other header passes
\* with all its values in order, in both directions; the only other
\* difference is that the forwarded request of a non-empty body whose
\* Content-Type is missing or empty carries Content-Type: application/json.
C17_HeadersFiltered ==
    returned
    => /\ DOMAIN result \cap hopByHopHeaders = {}
       /\ IF DefaultsContentType
          THEN /\ DOMAIN result
                      = DOMAIN EndToEnd(arg.header) \cup {"Content-Type"}
               /\ result["Content-Type"] = <<"application/json">>
               /\ \A name \in (DOMAIN result) \ {"Content-Type"} :
                     result[name] = arg.header[name]
          ELSE result = EndToEnd(arg.header)

\* a request with hop-by-hop headers, a repeated end-to-end header and a
\* body without content type has been forwarded
C17_Witness ==
    /\ returned
    /\ DefaultsContentType
    /\ "Content-Type" \notin DOMAIN arg.header
    /\ hopByHopHeaders \subseteq DOMAIN arg.header
    /\ "X-Request-Id" \in DOMAIN arg.header
    /\ Len(arg.header["X-Request-Id"]) = MaxValues
    /\ result["X-Request-Id"] = arg.header["X-Request-Id"]

(***************************************************************************)
(* Properties of the response conversion.                                  *)
(***************************************************************************)
Converted == returned /\ arg.path = "buffered" /\ arg.resp.Choices >= 1

\* the positions of the content list that hold a block of the type
BlocksOf(type) ==
    {k \in DOMAIN result.Content : result.Content[k].Type = type}

\* the text of the response: its content when that is a string
TextOf(resp) ==
    IF resp.Content \in {Nil, "[parts]"} THEN "" ELSE resp.Content

\* the tool_use blocks are the last blocks of the list, one per tool call,
\* in the order of the tool calls
ToolUseInOrder ==
    LET n == Len(arg.resp.ToolCalls)
        first == Len(result.Content) - n
    IN  /\ first >= 0
        /\ BlocksOf("tool_use") = (first + 1)..Len(result.Content)
        /\ \A k \in 1..n :
              /\ result.Content[first + k].Name = arg.resp.ToolCalls[k].Name
              /\ arg.resp.ToolCalls[k].ID # ""
                     => result.Content[first + k].ID
                            = arg.resp.ToolCalls[k].ID

\* C18 as stated: for a response with at least one choice the content
\* list has exactly one text block, which carries the message text and is
\* empty only when there is neither text nor a tool call, followed by
\* exactly one tool_use block per tool call in the original order, and
\* the list is never empty.
C18_OneTextBlock ==
    Converted
    => /\ Len(result.Content) >= 1
       /\ BlocksOf("text") = {1}
       /\ result.Content[1].Text = TextOf(arg.resp)
       /\ result.Content[1].Text = "" => arg.resp.ToolCalls = <<>>
       /\ ToolUseInOrder

\* C18 as amended: the content list is never empty; it starts with one
\* text block carrying the message text when the text is not empty, with
\* one empty text block when there is neither text nor a tool call, and
\* with no text block when there are tool calls and no text; then comes
\* exactly one tool_use block per tool call in the original order.
C18_ContentBlocks ==
    Converted
    => /\ Len(result.Content) >= 1
       /\ ToolUseInOrder
       /\ IF TextOf(arg.resp) # ""
          THEN /\ BlocksOf("text") = {1}
               /\ result.Content[1].Text = TextOf(arg.resp)
          ELSE IF arg.resp.ToolCalls = <<>>
          THEN /\ BlocksOf("text") = {1}
               /\ result.Content[1].Text = ""
          ELSE BlocksOf("text") = {}

\* a response with text and two different tool calls has been converted
C18_Witness ==
    /\ Converted
    /\ TextOf(arg.resp) # ""
    /\ Len(arg.resp.ToolCalls) = 2
    /\ arg.resp.ToolCalls[1].Name # arg.resp.ToolCalls[2].Name
    /\ Len(result.Content) = 3

\* the stop_reason the mapping must give
StopReasonFor(reason) ==
    IF reason = "stop" THEN "end_turn"
    ELSE IF reason = "length" THEN "max_tokens"
    ELSE IF reason = "tool_calls" THEN "tool_use"
    ELSE "end_turn"

\* the stop reasons of the message_delta events of the streamed answer
StreamedStopReasons ==
    {result.events[k].kind :
        k \in {j \in DOMAIN result.events :
                  result.events[j].type = "message_delta"}}

\* C19: on the buffered and on the streaming path alike, every
\* finish_reason has a stop_reason: end_turn for stop, max_tokens for
\* length, tool_use for tool_calls and end_turn for every other value,
\* the empty string included.
C19_StopReasonMapping ==
    (returned /\ arg.resp.Choices >= 1)
    => IF arg.path = "buffered"
       THEN result.StopReason = StopReasonFor(arg.resp.FinishReason)
       ELSE StreamedStopReasons = {StopReasonFor(arg.resp.FinishReason)}

\* the finish reason length has been mapped on the streaming path
C19_Witness ==
    /\ returned
    /\ arg.path = "streaming"
    /\ arg.resp.FinishReason = "length"
    /\ StreamedStopReasons = {"max_tokens"}

(***************************************************************************)
(* Properties of the token count estimate.                                 *)
(***************************************************************************)
Counted == returned /\ arg.Method = "POST" /\ arg.json

\* C20 as stated: POST /v1/messages/count_tokens with a valid JSON body
\* of L bytes returns input_tokens = ceil(L / 4).
C20_CeilOfQuarter ==
    Counted
    => /\ result.status = 200
       /\ 4 * result.input_tokens >= arg.Len
       /\ 4 * (result.input_tokens - 1) < arg.Len

\* C20 as amended: it returns input_tokens = floor(L / 4), and 1 when
\* that is 0.
C20_FloorOfQuarter ==
    Counted
    => /\ result.status = 200
       /\ result.input_tokens >= 1
       /\ \/ /\ 4 * result.input_tokens <= arg.Len
             /\ arg.Len < 4 * (result.input_tokens + 1)
          \/ result.input_tokens = 1 /\ arg.Len < 4

\* a body of more than four bytes whose length is not a multiple of four
\* has been counted
C20_Witness ==
    /\ Counted
    /\ arg.Len > 4
    /\ arg.Len % 4 # 0
    /\ result.input_tokens = arg.Len \div 4

(***************************************************************************)
(* Properties of the request handlers.                                     *)
(***************************************************************************)
\* the body of the request names a model
HasModel == arg.json = "ok" /\ Len(arg.modelName) > 0

\* the calls of the answer that the claims exclude
Called(what) == \E k \in DOMAIN result.calls : result.calls[k] = what

\* C21: on the OpenAI routes a request whose body has no non-empty model
\* field is answered 400, and a request whose model matches no running
\* instance is answered 404; in both cases no concurrency slot is asked
\* for and no upstream request is sent.
C21_RejectedBeforeSlot ==
    (returned /\ arg.route = "openai" /\ arg.pathV1)
    => /\ ~HasModel
          => /\ result.status = 400
             /\ ~Called("acquire") /\ ~Called("forward")
       /\ (HasModel /\ ExactMatches = {} /\ PrefixMatches = {})
          => /\ result.status = 404
             /\ ~Called("acquire") /\ ~Called("forward")

\* a request that names a model no running instance serves has been
\* answered, although a stopped instance of that model is listed
C21_Witness ==
    /\ returned
    /\ arg.route = "openai"
    /\ HasModel
    /\ arg.instances # <<>>
    /\ arg.modelName = arg.instances[1].ModelID
    /\ result.status = 404

\* C22: POST /v1/messages answers 400 invalid_request_error to every
\* request with an empty model, max_tokens <= 0 or an empty messages list,
\* before any instance lookup, slot acquisition or upstream call.
C22_InvalidMessagesRejected ==
    (/\ returned
     /\ arg.route = "anthropic"
     /\ arg.Method = "POST"
     /\ arg.json = "ok"
     /\ \/ Len(arg.modelName) = 0
        \/ arg.MaxTokens <= 0
        \/ arg.Messages = 0)
    => /\ result.status = 400
       /\ result.type = "invalid_request_error"
       /\ result.calls = <<>>

\* a request with max_tokens 0 for a model that a running instance serves
\* has been rejected
C22_Witness ==
    /\ returned
    /\ arg.route = "anthropic"
    /\ arg.Method = "POST"
    /\ HasModel
    /\ arg.MaxTokens = 0
    /\ arg.Messages = 1
    /\ ExactMatches # {}
    /\ result.status = 400

(***************************************************************************)
(* Properties of Manager.Stop and of the instance states.                  *)
(***************************************************************************)
\* after the step, the instance id is gone and what it held is free
StoppedAndFreed(id) ==
    /\ id \notin DOMAIN containers'
    /\ id \notin RunningInstances'
    /\ DevicesOf(id) \subseteq FreeDevices'
    /\ instances[id].Port \in FreePorts'

\* C23: a Stop of a running instance removes its container, takes it out
\* of the running instances of List, and leaves its devices free and its
\* port unmarked and bindable for the next Run.
C23_StopReleases ==
    [][\A id \in DOMAIN instances :
          (Stop(id) /\ instances[id].State = StateRunning)
          => StoppedAndFreed(id)]_vars

InstanceStates ==
    {StateCreated, StateStarting, StateRunning, StateUnhealthy,
     StateStopped, StateError}

Terminal == {StateStopped, StateError}

\* C24: the state of every registered instance is one of the six states, an
\* instance enters the registry in created, and an instance that is
\* stopped or error keeps that state for as long as it is registered.
C24_StateMachine ==
    [][/\ \A id \in DOMAIN instances' :
             instances'[id].State \in InstanceStates
       /\ \A id \in (DOMAIN instances') \ (DOMAIN instances) :
             instances'[id].State = StateCreated
       /\ \A id \in (DOMAIN instances') \cap (DOMAIN instances) :
             instances[id].State \in Terminal
             => instances'[id].State = instances[id].State]_vars

\* the start of an instance has failed and the instance, in error, is
\* registered next to another instance
C24_Witness ==
    \E a, b \in DOMAIN instances :
        /\ a # b
        /\ instances[a].State = StateError
        /\ instances[b].State = StateRunning

\* C25: the ids of the instances created by Run are pairwise distinct: two
\* Runs whose Runtime.Create has succeeded hold different instance ids,
\* also when both read the clock in the same second.
C25_DistinctIDs ==
    \A p, q \in Procs :
        (p # q /\ HasCreated(p) /\ HasCreated(q))
        => local[p].instanceID # local[q].instanceID

(***************************************************************************)
(* Properties of Runtime.Create.                                           *)
(***************************************************************************)
\* C26: an instance created with an explicit tensor_parallel t > 0 has
\* exactly t devices, and an instance created without one has
\* TENSOR_PARALLEL_SIZE equal to the number of its devices.
C26_TensorParallel ==
    (returned /\ result.err = "")
    => IF arg.TensorParallel > 0
       THEN Len(result.Devices) = arg.TensorParallel
       ELSE result.TENSOR_PARALLEL_SIZE = Itoa(Len(result.Devices))

(***************************************************************************)
(* Properties of the PortAllocator.                                        *)
(***************************************************************************)
\* the port q is not marked and a bind to it succeeds
Free(q) == q \notin allocated /\ isPortAvailable(q)

\* C27: a GetFreePort that returns the port q returns the lowest port of
\* the range that is not marked and can be bound, marks q and changes
\* the mark of no other port.
C27_LowestFreePort ==
    [][(got'.call = "GetFreePort" /\ ~got'.err)
       => /\ got'.port \in PortRange
          /\ Free(got'.port)
          /\ \A q \in PortRange : q < got'.port => ~Free(q)
          /\ allocated' = allocated \cup {got'.port}]_vars

\* GetFreePort has returned the second port of the range because the
\* first one, not marked, is bound by a listening container
C27_Witness ==
    /\ got.call = "GetFreePort"
    /\ got.port = 2
    /\ 1 \notin allocated
    /\ ~isPortAvailable(1)

\* C28: when every port of the range is marked or cannot be bound,
\* GetFreePort returns the error and the marks stay as they are.
C28_Exhausted ==
    [][(got'.call = "GetFreePort" /\ \A q \in PortRange : ~Free(q))
       => /\ got'.err
          /\ got'.port = 0
          /\ allocated' = allocated]_vars

\* GetFreePort has failed with one port marked and another one bound
C28_Witness ==
    /\ got.call = "GetFreePort"
    /\ got.err
    /\ \E q \in PortRange : q \in allocated /\ isPortAvailable(q)
    /\ \E q \in PortRange : q \notin allocated /\ ~isPortAvailable(q)

\* C29: in any order of GetFreePort, MarkPortUsed and ReleasePort calls, a
\* port that was marked by MarkPortUsed or returned by GetFreePort is not
\* returned by a GetFreePort before a ReleasePort of it, and no port is
\* out on two leases.
C29_NoDoubleLease ==
    [][(got'.call = "GetFreePort" /\ ~got'.err)
       => /\ got'.port \notin marked
          /\ granted'[got'.port] = 1]_vars

\* a released port has been leased again while another port, marked by
\* MarkPortUsed, is still out
C29_Witness ==
    /\ got.call = "GetFreePort"
    /\ got.port = 1
    /\ granted[1] = 1
    /\ 2 \in marked
    /\ granted[2] = 0

\* C30: ReleasePort of a port that is not marked changes nothing, a second
\* ReleasePort of the same port changes nothing after the first, and
\* releasing the port that GetFreePort would return, right after it is
\* marked, gives the marks back as they were before.
C30_ReleaseIdempotent ==
    /\ \A q \in PortArgs :
          /\ q \notin allocated => ReleasePort(allocated, q) = allocated
          /\ ReleasePort(ReleasePort(allocated, q), q)
                = ReleasePort(allocated, q)
    /\ GetFreePort # 0
       => ReleasePort(allocated \cup {GetFreePort}, GetFreePort)
             = allocated

\* a port of the range has been released while another port stays marked
C30_Witness ==
    /\ got.call = "ReleasePort"
    /\ got.port \in PortRange
    /\ got.port \notin allocated
    /\ allocated # {}
    /\ GetFreePort # 0

(***************************************************************************)
(* Properties of the tool blocks and of the text block of the stream       *)
(* adapter.                                                                *)
(***************************************************************************)
\* the positions of the output that open a tool_use block
ToolStarts ==
    {k \in EventsOf("content_block_start") : written[k].kind = "tool_use"}

\* the number of fragments of the list whose OpenAI index (0 when absent)
\* differs from the index of the fragment before; cur is <<>> or the
\* index before the list
RECURSIVE IndexChanges(_, _)
IndexChanges(cur, toolCalls) ==
    IF toolCalls = <<>> THEN 0
    ELSE LET idx == IF Head(toolCalls).Index # <<>>
                    THEN Head(toolCalls).Index[1] ELSE 0
         IN  (IF cur = <<>> \/ cur[1] # idx THEN 1 ELSE 0)
             + IndexChanges(<<idx>>, Tail(toolCalls))

\* the tool_use blocks that processChunk opens for the chunk in the state
NewToolStarts(chunk) ==
    LET w == processChunk([sa |-> sa, w |-> written], chunk).w
    IN  Cardinality({k \in (Len(written) + 1)..Len(w) :
                        /\ w[k].type = "content_block_start"
                        /\ w[k].kind = "tool_use"})

\* C31: a tool_use block is opened exactly for the tool-call fragments
\* whose OpenAI index differs from the current one (or that come first);
\* the tool blocks get the indices 1, 2, 3, ... in the order they are
\* opened, index 0 carries only the text block, and every input_json_delta
\* has the index of the tool block opened last before it.
C31_ToolBlocks ==
    /\ \A k \in ToolStarts :
          written[k].index = Cardinality({j \in ToolStarts : j <= k})
    /\ \A k \in DOMAIN written :
          written[k].index = 0
          => \/ written[k] = Event("content_block_start", 0, "text")
             \/ written[k] = Event("content_block_delta", 0, "text_delta")
             \/ written[k] = Event("content_block_stop", 0, "")
    /\ \A k \in DOMAIN written :
          written[k].kind = "input_json_delta"
          => /\ written[k].index >= 1
             /\ written[k].index = Cardinality({j \in ToolStarts : j < k})
    /\ (spc = "scan" /\ lines < MaxLines)
       => \A chunk \in ChunkSet :
             chunk.Choices > 0
             => NewToolStarts(chunk)
                   = IndexChanges(sa.toolIndex, chunk.ToolCalls)

\* two tool blocks are open; the second one was opened by a fragment with
\* another OpenAI index and carries an input_json_delta
C31_Witness ==
    /\ Cardinality(ToolStarts) = 2
    /\ sa.toolIndex = <<1>>
    /\ written[Len(written)] = Event("content_block_delta", 2,
                                     "input_json_delta")

\* the positions of the output that stop the text block
TextStops == EventsAt(DOMAIN written, "content_block_stop", 0)

\* the positions of the output that carry a text_delta
TextDeltas ==
    {k \in EventsOf("content_block_delta") : written[k].kind = "text_delta"}

\* C32: the content_block_stop of index 0 comes before the
\* content_block_start of the first tool block, it is written at most once
\* and exactly once when Transform has returned, and no text_delta comes
\* after it.
C32_TextBlockClosedOnce ==
    /\ Cardinality(TextStops) <= 1
    /\ spc = "done" => Cardinality(TextStops) = 1
    /\ \A k \in ToolStarts : \E j \in TextStops : j < k
    /\ \A k \in TextDeltas : \A j \in TextStops : k < j

\* Transform has returned after a stream with a text delta and then a tool
\* call, which closed the text block before the finish
C32_Witness ==
    /\ spc = "done"
    /\ TextDeltas # {}
    /\ \E j \in TextStops : \E k \in ToolStarts :
          k = j + 1 /\ \A t \in TextDeltas : t < j

(***************************************************************************)
(* Properties of the container environment.                                *)
(***************************************************************************)
\* the keys that tell the container which devices it sees
DeviceKeys == {"ASCEND_VISIBLE_DEVICES"}

\* C33: for a key that is both in the user's environment and in the
\* sandbox's, the container gets the sandbox's value when the key is a
\* device key and the user's value otherwise.
C33_EnvPrecedence ==
    returned
    => \A k \in (DOMAIN arg.Environment) \cap (DOMAIN arg.sandboxEnv) :
          result[k] = IF k \in DeviceKeys THEN arg.sandboxEnv[k]
                      ELSE arg.Environment[k]

(***************************************************************************)
(* Properties of the model catalog.                                        *)
(***************************************************************************)
\* C34: every ModelSpec that LoadModelsFromConfig makes from an accepted
\* configuration has at least one supported device, and each of its
\* supported devices has at least one engine option.
C34_SpecsHaveEngines ==
    (returned /\ result.err = "")
    => \A i \in DOMAIN result.specs :
          /\ DOMAIN result.specs[i].SupportedDevices # {}
          /\ \A d \in DOMAIN result.specs[i].SupportedDevices :
                Len(result.specs[i].SupportedDevices[d]) >= 1

(***************************************************************************)
(* Properties of the concurrency slot of a request.                        *)
(***************************************************************************)
\* the positions of the answer's calls that are the call what
CallsOf(what) == {k \in DOMAIN result.calls : result.calls[k] = what}

\* C35: in both handlers a slot that was acquired is released exactly
\* once, as the last thing the handler does, on every way out: after the
\* conversion error, the forward failure, the backend's error, the relay
\* of the body cut short by the client, and the complete relay.
C35_SlotReleasedOnce ==
    (returned /\ arg.acquire = "slot" /\ CallsOf("acquire") # {})
    => /\ Cardinality(CallsOf("release")) = 1
       /\ result.calls[Len(result.calls)] = "release"
       /\ \A k \in CallsOf("forward") \cup CallsOf("relay") :
             \A a \in CallsOf("acquire") : a < k

\* HandleMessages has released the slot after the backend answered with
\* an error status
C35_Witness ==
    /\ returned
    /\ arg.route = "anthropic"
    /\ arg.acquire = "slot"
    /\ arg.downstream = "backend_error"
    /\ result.status = 500
    /\ result.calls = <<"lookup", "acquire", "forward", "release">>

(***************************************************************************)
(* Properties of the semaphores with cleanupInstance.                      *)
(***************************************************************************)
\* the goroutines that hold a slot of the instance
SlotHolders == {r \in Requests : slotpc[r] = "acquired"}

\* C36: whatever the order of acquireSlot, release and cleanupInstance
\* calls for an instance id, no goroutine sends on a closed semaphore
\* channel, and the slots acquired and not released are at most
\* maxConcurrency.
C36_NoPanicWithinLimit ==
    /\ \A r \in Requests : slotpc[r] # "panic"
    /\ Cardinality(SlotHolders) <= MaxK

====
